---------------------------- MODULE Spec2Model ----------------------------
(***************************************************************************)
(* Model of the batch orchestrator of RJ Auto Metadata                     *)
(* (src/src/processing/batch_processing.py, batch_process_files): the      *)
(* sliding-window first pass, the cancellation path, and the auto-retry    *)
(* rounds, together with the worker jobs (process_single_file) seen as     *)
(* futures that complete with a result or raise.                           *)
(*                                                                         *)
(* Input paths are the numbers 1..NumFiles, in directory listing order.    *)
(* The coordinator thread is a program counter pc; every worker job is a   *)
(* future that goes "none" -> "running" -> "done".  The environment may    *)
(* set the cancellation signal and may remove input files at any time.     *)
(*                                                                         *)
(* A run is studied in one of several environments (env): the general one  *)
(* with cancellation and vanishing inputs (Spec), long retries             *)
(* (RetrySpec), several credentials (KeySpec), a per-file delay under a    *)
(* clock (DelaySpec), one to three files that are processed or fail at the *)
(* AI call (SummarySpec), and vector files whose job is followed step by   *)
(* step through process_single_file and process_vector_file: one file      *)
(* under cancellation and every failure (JobSpec), one file renamed to a   *)
(* title with names already taken (RenameSpec), and two files at once      *)
(* (PairSpec).  CallSpec follows a whole call from its entry with the      *)
(* progress callback, LiveSpec is the fair run without cancellation.  The  *)
(* library functions the run calls are studied on their own:               *)
(* get_recommended_workers (WorkersSpec), the metadata writers of          *)
(* src/src/metadata/exif_writer.py (WriterSpec), and compress_image with   *)
(* its cache in src/src/utils/compression.py (CacheSpec).                  *)
(***************************************************************************)
EXTENDS Integers, Sequences, FiniteSets, TLC

(* ------------------------------ bounds --------------------------------- *)
NumFiles   == 3      \* most files a run enumerates
FewFiles   == 2      \* files of the runs with cancellation or long retries
MaxWorkers == 2      \* num_workers is drawn from 1..MaxWorkers
MaxKeys    == 1      \* len(api_keys) is drawn from 0..MaxKeys
ManyKeys   == 3      \* credential study: len(api_keys) is drawn from 1..ManyKeys
MaxDelay   == 2      \* delay study: delay_seconds is drawn from 1..MaxDelay
MaxTime    == 4      \* delay study: the clock is free to advance up to here
JobFiles   == 1      \* files of the runs that follow a job step by step
MaxGap     == 2      \* rename study: a gap in the taken names starts up to here
MaxCpu     == 128    \* os.cpu_count() is drawn from 1..MaxCpu, or unknown
NumCallers == 2      \* threads calling compress_image at once
MaxCalls   == 2      \* calls of compress_image each of them makes
NumHot     == 2      \* cache study: the oldest keys, asked for again
NumFresh   == 2      \* cache study: keys the cache has not seen
MaxRounds  == 5      \* the count of retry rounds saturates here
MaxExec    == 6      \* the per-file execution count saturates here

Files  == 1..NumFiles
NoFile == 0

(* ------------------------- retry policy table -------------------------- *)
RetryableNames ==
  {"failed_api", "failed_copy", "failed_conversion", "failed_frames",
   "failed_worker", "failed_timeout", "failed_exception",
   "debug_artificial_failure"}

RETRYABLE_STATUSES ==
  [s \in RetryableNames |->
     CASE s = "failed_api"               -> 5
       [] s = "failed_copy"              -> 3
       [] s = "failed_conversion"        -> 3
       [] s = "failed_frames"            -> 3
       [] s = "failed_worker"            -> 2
       [] s = "failed_timeout"           -> 2
       [] s = "failed_exception"         -> 2
       [] s = "debug_artificial_failure" -> 3]

NON_RETRYABLE_STATUSES == {"failed_format", "failed_empty", "failed_input_missing"}

\* variant: the attempt budget is applied whatever the status
is_retryable_any_status(status, attempt) == attempt < 3

is_retryable(status, attempt) ==
  IF status \in NON_RETRYABLE_STATUSES THEN FALSE
  ELSE IF status \in DOMAIN RETRYABLE_STATUSES
       THEN attempt < RETRYABLE_STATUSES[status]
       ELSE FALSE

(* --------------------------- job outcomes ------------------------------ *)
ProcessedStatuses ==
  {"processed_exif", "processed_no_exif", "processed_exif_failed",
   "processed_unknown_exif_status"}

\* what future.result() can do besides returning a dict with a status:
\* raise, raise a timeout, or hand back a falsy result (the handlers have a
\* branch for it, process_single_file never returns one)
RAISES  == "<raises>"
TIMEOUT == "<timeout>"
EMPTY   == "<empty>"

\* Outcomes the jobs of a run are drawn from while their input is present and
\* no stop is pending.  General: one processed status, the idempotence skip,
\* a retryable and a non-retryable failure, and a raising job.
GeneralOutcomes ==
  {"processed_exif", "skipped_exists", "failed_copy", "failed_format", RAISES}

\* Retry study: success, the failure with the largest cap, a job that
\* raises and one that raises a timeout
RetryOutcomes == {"processed_exif", "failed_api", RAISES, TIMEOUT}

\* Credential study: a success and the failure with the smallest cap
KeyOutcomes == {"processed_exif", "failed_worker"}

\* Progress study: a success, a failure that is never retried and a job
\* that raises
LiveOutcomes == {"processed_exif", "failed_format", RAISES}

\* Summary study: the four processed statuses and the failure with the
\* largest cap
SummaryOutcomes == ProcessedStatuses \cup {"failed_api"}

\* extensions process_vector_file handles
VectorExts == {".eps", ".ai", ".svg"}

\* what can go wrong in a job followed step by step: an exception in
\* process_single_file, a failed conversion, an AI result that is no
\* metadata, a failed copy, an embedder that raises, a title that is empty
\* or the file's own name, a failed move, a failed deletion of the input, a
\* failed CSV write; before any job, os.listdir of the input directory may
\* raise ("listdir")
JobFailures == {"crash", "conversion", "api", "copy", "exif", "title", "move",
                "delete", "csv"}

(* ------------------------------ renaming ------------------------------ *)
max_rename_attempts == 50

\* names are numbered: 0 is "T.ext", k is "T (k).ext"; Original is the
\* un-renamed name, NoName no name at all
Original == -1
NoName   == -2

\* names of a title taken before the run: "T.ext" and its first numbered
\* variants up to any length, with or without one more after a gap
NamePrefix(p) == 0..(p - 1)
RenameNameSets ==
  {NamePrefix(p) : p \in 0..(max_rename_attempts + 2)}
  \cup {NamePrefix(p) \cup {p + 1} : p \in 0..MaxGap}

\* a run's environment: how many files the directory holds, the lengths
\* api_keys may have, the values of delay_seconds, may the operator stop
\* it, may inputs disappear, which parts of the history are recorded, and
\* its jobs: either a job is its outcome alone (one of outcomes), or it is
\* followed step by step (detailed) on a vector file with one of the
\* extensions exts, under the settings renames and embeds, with the
\* un-renamed output path in one of the states outputs before the run, the
\* failures of may_fail, the files sharing one base name or not (same_base)
\* and the names of the title taken before the run one of names; callback:
\* a progress_callback was passed
BaseEnv ==
  [files |-> FewFiles, keys |-> 0..MaxKeys, delays |-> {0},
   may_stop |-> FALSE, may_vanish |-> FALSE, history |-> FALSE, log |-> FALSE,
   outcomes |-> {}, detailed |-> FALSE, exts |-> {"-"}, renames |-> {FALSE},
   embeds |-> {TRUE}, outputs |-> {"absent"}, may_fail |-> {},
   same_base |-> FALSE, names |-> {{}}, callback |-> FALSE]

GeneralEnv == [BaseEnv EXCEPT !.may_stop = TRUE, !.may_vanish = TRUE,
                              !.outcomes = GeneralOutcomes]
CallEnv    == [GeneralEnv EXCEPT !.callback = TRUE, !.may_fail = {"listdir"}]
RetryEnv   == [BaseEnv EXCEPT !.outcomes = RetryOutcomes, !.history = TRUE]
KeyEnv     == [BaseEnv EXCEPT !.files = NumFiles, !.keys = 1..ManyKeys,
                              !.outcomes = KeyOutcomes, !.log = TRUE]
DelayEnv   == [BaseEnv EXCEPT !.keys = {1}, !.delays = 1..MaxDelay,
                              !.outcomes = KeyOutcomes]
LiveEnv    == [BaseEnv EXCEPT !.outcomes = LiveOutcomes, !.history = TRUE,
                              !.callback = TRUE]
SummaryEnv == [BaseEnv EXCEPT !.keys = {1}, !.delays = 0..1,
                              !.outcomes = SummaryOutcomes, !.history = TRUE]
RenameEnv  == [BaseEnv EXCEPT !.files = JobFiles, !.keys = {1},
                              !.detailed = TRUE, !.exts = {".eps"},
                              !.renames = {TRUE}, !.embeds = {FALSE},
                              !.may_fail = {"conversion"},
                              !.names = RenameNameSets]
PairEnv    == [BaseEnv EXCEPT !.keys = {1}, !.detailed = TRUE,
                              !.exts = {".eps", ".svg"}, !.renames = {TRUE},
                              !.embeds = {FALSE}, !.may_fail = {"conversion"}]
JobEnv     == [BaseEnv EXCEPT !.files = JobFiles, !.keys = {1},
                              !.may_stop = TRUE, !.may_vanish = TRUE,
                              !.detailed = TRUE, !.exts = {".eps", ".svg"},
                              !.renames = BOOLEAN, !.embeds = BOOLEAN,
                              !.outputs = {"absent", "old"},
                              !.may_fail = JobFailures]

VARIABLES
  env,                     \* the environment of this run (fixed at Init)
  pc,                      \* position of the coordinator thread
  stop,                    \* should_stop(): the cancellation signal
  exists,                  \* os.path.exists(input_path) per file
  num_workers,             \* effective_num_workers
  num_keys,                \* len(api_keys)
  auto_retry_enabled,
  delay_seconds,
  rename_enabled,
  embedding_enabled,
  ext,                     \* per file: its lowercased extension
  output,                  \* per file: the un-renamed output path: "absent",
                           \*   "old" (there before the run), "partial", "new"
  temp_raster,             \* per file: the rasters at its temp folder paths
  names,                   \* per extension: the taken names of the title
  job,                     \* per file: the job's position and locals
  effects,                 \* per file: what its current job has done (history)
  now,                     \* time.time()
  last_submit_time,        \* 0: no submission yet in the first pass
  retry_last_submit,       \* 0: no submission yet in this retry round
  future,                  \* per file: the latest future submitted for it
  assigned_key,            \* per file: credential index given to that future
  file_queue_index,        \* 0-based, as in the source
  pending_futures,
  processed_files,
  done_set,                \* result of concurrent.futures.wait being iterated
  current_api_key_index,
  processed_count, failed_count, skipped_count, stopped_count,
  completed_count,
  failed_files,            \* sequence of <<path, status, attempt>>
  retry_files,             \* sequence of paths
  retry_queue_index,
  retry_pending,
  retry_processed_files,
  current_retry_failed_files,
  retry_processed, retry_failed, retry_stopped,
  \* history (not program state)
  tally,                   \* per file: its net contribution to each counter
  candidates,              \* files of the last pass with a retryable entry
  gone_at_dequeue,         \* candidates of this round skipped as missing
  seen_stop,               \* the coordinator has observed the signal
  seen_pass,               \* 0: it observed it in the first pass, 1: later
  running_at_stop,         \* jobs still running when it observed it
  uncollected_at_stop,     \* first pass: files not collected at that moment
  rounds,                  \* retry rounds started            (env.history)
  execs,                   \* per file: executions submitted  (env.history)
  last_outcome,            \* per file: latest job outcome    (env.history)
  same_outcome,            \* per file: all its outcomes were this one
  submit_seq,              \* submissions made so far            (env.log)
  submit_no,               \* per file: number of its latest one (env.log)
  prev_submit,             \* time of the latest submission of the run, or 0
  temp_folder,             \* the folder temp_compressed of output_dir exists
  progress,                \* the calls of progress_callback so far, as
                           \*   <<completed, total>>                (history)
  \* library functions studied on their own
  call,                    \* the function called and its arguments
  returned,                \* <<>>, or <<what it returned>>
  COMPRESS_CACHE,          \* _COMPRESS_CACHE: its keys, in insertion order
  temp_files,              \* the keys whose compressed file exists
  caller,                  \* per thread: its call of compress_image
  uses                     \* the keys in the order of their latest use
                           \*                                       (history)

coordVars == <<pc, file_queue_index, pending_futures, processed_files, done_set,
               current_api_key_index, processed_count, failed_count,
               skipped_count, stopped_count, completed_count, failed_files>>
retryVars == <<retry_files, retry_queue_index, retry_pending,
               retry_processed_files, current_retry_failed_files,
               retry_processed, retry_failed, retry_stopped>>
paramVars == <<env, num_workers, num_keys, auto_retry_enabled, delay_seconds,
               rename_enabled, embedding_enabled, ext>>
jobVars   == <<output, temp_raster, names, job, effects>>
clockVars == <<now, last_submit_time, retry_last_submit, prev_submit>>
stopHist  == <<seen_stop, seen_pass, running_at_stop, uncollected_at_stop>>
jobHist   == <<execs, last_outcome, same_outcome, submit_seq, submit_no>>
histVars  == <<tally, candidates, gone_at_dequeue, stopHist, rounds, jobHist>>
callVars  == <<temp_folder, progress>>
cacheVars == <<COMPRESS_CACHE, temp_files, caller, uses>>
libVars   == <<call, returned, cacheVars>>
vars == <<coordVars, retryVars, paramVars, clockVars, jobVars, histVars,
          callVars, libVars, stop, exists, future, assigned_key>>

total_files == env.files

\* variant: the queue is built back to front
file_queue_reversed == [i \in 1..total_files |-> total_files + 1 - i]

\* file_queue = list(files_to_process): the listing order
file_queue == [i \in 1..total_files |-> i]

Min(a, b) == IF a < b THEN a ELSE b

SeqToSet(s) == {s[i] : i \in 1..Len(s)}

ZeroTally == [processed |-> 0, failed |-> 0, skipped |-> 0, stopped |-> 0]

Bump(t, fs, field, d) ==
  [f \in Files |-> IF f \in fs THEN [t[f] EXCEPT ![field] = @ + d] ELSE t[f]]

\* history: the change of the four counters made while handling f's result
Folded(t, f, dp, df, dk, ds) ==
  [t EXCEPT ![f] = [processed |-> @.processed + dp, failed |-> @.failed + df,
                    skipped |-> @.skipped + dk, stopped |-> @.stopped + ds]]

Running(fs) == {f \in fs : future[f].state = "running"}

\* outcomes process_single_file can produce given what it sees: with the
\* signal set it returns stopped, with its input gone failed_input_missing
JobOutcomes(stopSeen, inputPresent) ==
  IF stopSeen THEN {"stopped"} \cup ({RAISES, TIMEOUT} \cap env.outcomes)
  ELSE IF ~inputPresent
  THEN {"failed_input_missing"} \cup ({RAISES, TIMEOUT} \cap env.outcomes)
  ELSE env.outcomes

NoFuture == [state |-> "none", result |-> "-"]

\* the locals of process_single_file at its entry: status = "failed",
\* processed_metadata = None, initial_output_path = None; out0 remembers the
\* state of the output path when the job was submitted, ret what it returned
\* and from the position it returned at
NoJob == [at |-> "idle", status |-> "failed", metadata |-> FALSE,
          out |-> FALSE, out0 |-> "-", ret |-> "-", from |-> "-",
          temp |-> "none",
          ai |-> "-", proceed |-> TRUE, exif |-> "-", target |-> NoName,
          final |-> NoName, seen |-> {}]
NewJob(out0) == [NoJob EXCEPT !.at = "start", !.out0 = out0]

(* ----------------- library functions: state at rest ------------------- *)
COMPRESS_CACHE_MAX == 256

\* keys are numbered (a key is an input path with its mtime and size): the
\* callers ask for the first NumHot keys and for NumFresh keys past any the
\* cache has held
HotKeys     == 1..NumHot
FreshKeys   == (COMPRESS_CACHE_MAX + 1)..(COMPRESS_CACHE_MAX + NumFresh)
RequestKeys == HotKeys \cup FreshKeys

Callers == 1..NumCallers

\* no function call is under study
NoCall == [fn |-> "-"]

\* a thread outside compress_image: the calls it has made, what the last
\* one returned
IdleCaller == [at |-> "idle", key |-> 0, calls |-> 0, ret |-> <<>>]

\* history: the keys stored or hit since the study began, the latest used
\* last, and those of them whose latest use was a hit
NoUses == [recent |-> <<>>, hit |-> {}]

\* no thread is in compress_image, the cache is empty
CacheIdle ==
  /\ COMPRESS_CACHE = <<>>
  /\ temp_files = {}
  /\ caller = [t \in Callers |-> IdleCaller]
  /\ uses = NoUses

LibIdle ==
  /\ call = NoCall
  /\ returned = <<>>
  /\ CacheIdle

\* the state of a call of batch_process_files in environment e at position
\* p: its entry, or the start of the first pass (the temp folder is made,
\* the files are listed, progress_callback(0, total_files) is done)
InitAt(e, p) ==
  /\ env = e
  /\ pc = p
  /\ temp_folder = (p = "prefill")
  /\ progress = IF e.callback /\ p = "prefill" THEN <<<<0, e.files>>>> ELSE <<>>
  /\ stop = FALSE
  /\ exists = [f \in Files |-> f <= e.files]
  /\ num_workers \in 1..MaxWorkers
  /\ num_keys \in e.keys
  /\ delay_seconds \in e.delays
  /\ rename_enabled \in e.renames
  /\ embedding_enabled \in e.embeds
  /\ ext \in {x \in [Files -> e.exts \cup {"-"}] :
                \A f \in Files : IF f <= e.files THEN x[f] \in e.exts
                                               ELSE x[f] = "-"}
  /\ output \in {x \in [Files -> e.outputs \cup {"absent"}] :
                   \A f \in Files : f > e.files => x[f] = "absent"}
  /\ temp_raster = [f \in Files |-> {}]
  /\ names \in {x \in [VectorExts \cup {"-"} -> e.names \cup {{}}] :
                  \A t \in DOMAIN x :
                    (\A f \in 1..e.files : ext[f] # t) => x[t] = {}}
  /\ job = [f \in Files |-> NoJob]
  /\ effects = [f \in Files |-> {}]
  /\ now = 1
  /\ last_submit_time = 0
  /\ retry_last_submit = 0
  /\ prev_submit = 0
  /\ future = [f \in Files |-> NoFuture]
  /\ assigned_key = [f \in Files |-> 0]
  /\ file_queue_index = 0
  /\ pending_futures = {}
  /\ processed_files = {}
  /\ done_set = {}
  /\ current_api_key_index = 0
  /\ processed_count = 0 /\ failed_count = 0
  /\ skipped_count = 0 /\ stopped_count = 0
  /\ completed_count = 0
  /\ failed_files = <<>>
  /\ retry_files = <<>>
  /\ retry_queue_index = 0
  /\ retry_pending = {}
  /\ retry_processed_files = {}
  /\ current_retry_failed_files = <<>>
  /\ retry_processed = 0 /\ retry_failed = 0 /\ retry_stopped = 0
  /\ tally = [f \in Files |-> ZeroTally]
  /\ candidates = {}
  /\ gone_at_dequeue = {}
  /\ seen_stop = FALSE
  /\ seen_pass = 0
  /\ running_at_stop = {}
  /\ uncollected_at_stop = {}
  /\ rounds = 0
  /\ execs = [f \in Files |-> 0]
  /\ last_outcome = [f \in Files |-> "-"]
  /\ same_outcome = [f \in Files |-> "-"]
  /\ submit_seq = 0
  /\ submit_no = [f \in Files |-> 0]

InitWith(e) == InitAt(e, "prefill") /\ LibIdle

Init ==
  /\ InitWith(GeneralEnv)
  /\ auto_retry_enabled \in BOOLEAN

(* ----------------------------- environment ----------------------------- *)
\* the operator requests a stop: stop_event is set and stays set for the run
SetStop ==
  /\ env.may_stop
  /\ ~stop
  /\ pc # "done"
  /\ stop' = TRUE
  /\ UNCHANGED <<clockVars, jobVars, coordVars, retryVars, paramVars, libVars, callVars, histVars, exists, future,
                 assigned_key>>

\* paths the run may still look at: not yet dequeued, being processed, or
\* in the failed registry
Watched(f) ==
  \/ \E i \in (file_queue_index + 1)..Len(file_queue) : file_queue[i] = f
  \/ future[f].state = "running"
  \/ \E i \in 1..Len(failed_files) : failed_files[i][1] = f

\* an input file is removed from the input directory by something else
Vanish(f) ==
  /\ env.may_vanish
  /\ exists[f]
  /\ pc # "done"
  /\ Watched(f)
  /\ exists' = [exists EXCEPT ![f] = FALSE]
  /\ UNCHANGED <<clockVars, jobVars, coordVars, retryVars, paramVars, libVars, callVars, histVars, stop, future,
                 assigned_key>>

\* time passes
Tick ==
  /\ now < MaxTime
  /\ pc # "done"
  /\ now' = now + 1
  /\ UNCHANGED <<jobVars, coordVars, retryVars, paramVars, libVars, callVars, histVars, stop, exists,
                 future, assigned_key, last_submit_time, retry_last_submit,
                 prev_submit>>

(* ------------------------------ worker job ----------------------------- *)
\* process_single_file runs to its return (or raises) on a pool thread; a
\* processed_* outcome has deleted the input file
JobComplete(f) ==
  /\ ~env.detailed
  /\ future[f].state = "running"
  /\ \E o \in JobOutcomes(stop, exists[f]) :
       /\ future' = [future EXCEPT ![f] = [state |-> "done", result |-> o]]
       /\ exists' = IF o \in ProcessedStatuses
                    THEN [exists EXCEPT ![f] = FALSE] ELSE exists
       /\ IF env.history
          THEN /\ last_outcome' = [last_outcome EXCEPT ![f] = o]
               /\ same_outcome' = [same_outcome EXCEPT ![f] =
                                     IF execs[f] = 1 \/ @ = o THEN o ELSE "mixed"]
          ELSE UNCHANGED <<last_outcome, same_outcome>>
  /\ UNCHANGED <<clockVars, jobVars, coordVars, retryVars, paramVars, libVars, callVars, stop, assigned_key, execs,
                 submit_seq, submit_no, tally, candidates, gone_at_dequeue,
                 stopHist, rounds>>

(* ---------------------- worker job, step by step ---------------------- *)
\* The job of a vector file: process_single_file calling process_vector_file.
\* A step runs from one look at the cancellation signal or at the file
\* system to the next.  c is the job's state: its position at, its locals
\* (status, metadata: processed_metadata is set, out: initial_output_path is
\* set, temp: what temp_raster_path names, target: the counter of new_path,
\* final: the name final_output_path ends with), what it was handed (ai,
\* proceed and exif) and saw (seen: the names taken when it looked for a
\* free one), what it has done (effects), the files it sees (input, output,
\* files: the rasters at its temp paths, names: the taken names of its title
\* and extension), and ret, the status it returns ("-" while it runs).
Did(c, what) == [c EXCEPT !.effects = @ \cup {what}]

\* the environment of the run lets the failure of this kind happen
May(kind) == kind \in env.may_fail

\* process_vector_file returns (status, metadata, path) to process_single_file
VectorReturns(c, status, metadata, out) ==
  [c EXCEPT !.at = "post", !.status = status, !.metadata = metadata, !.out = out]

\* process_single_file returns {"status": status, ...}
Returns(c, status) ==
  [c EXCEPT !.at = "returned", !.ret = status, !.from = c.at]

\* an exception inside the try block: status = "failed_worker", then the
\* last look at the signal
Crashes(c) == [Did(c, "crash") EXCEPT !.at = "final", !.status = "failed_worker"]

\* the conversion wrote the raster "<base>_converted.jpg"
Converted(files) == files \cup {"converted"}

\* a failed conversion: whatever is at that path is removed
ConversionFailed(files) == files \ {"converted"}

\* compress_image wrote "<base>_converted_compressed.jpg", the converted
\* raster is removed
Compressed(files) == (files \cup {"compressed"}) \ {"converted"}

\* variant: the raster is left where it is after the AI call
AfterAiCall_keeps(files, temp) == files

\* after the AI call the raster temp_raster_path names is removed if there
AfterAiCall(files, temp) == files \ {temp}

\* what provider_manager.get_metadata hands back: the "stopped" sentinel
\* (when it saw the signal), a dict with an "error" key, something that is
\* not a dict, or the metadata dict
AiResults(stopNow) ==
  (IF stopNow THEN {"stopped"} ELSE {})
  \cup (IF May("api") THEN {"error", "invalid"} ELSE {}) \cup {"metadata"}

\* variant: a result that is not a dict is taken for the metadata
AiStatus_trusts_any(result) ==
  IF result = "stopped" THEN "stopped"
  ELSE IF result = "error" THEN "failed_api" ELSE "ok"

\* the branches on metadata_result: the status to return, or "ok" to go on
AiStatus(result) ==
  IF result = "stopped" THEN "stopped"
  ELSE IF result = "error" THEN "failed_api"
  ELSE IF result = "metadata" THEN "ok"
  ELSE "failed_api"

\* what write_exif_with_exiftool hands back, (proceed, exif_status), and
\* whether it wrote to the output file: with the signal set (False,
\* "stopped"); else one of its documented statuses
ExifResults(stopNow) ==
  IF stopNow THEN {<<FALSE, "stopped", FALSE>>}
  ELSE {<<TRUE, "no_metadata", FALSE>>, <<TRUE, "exiftool_not_found", FALSE>>,
        <<TRUE, "exif_ok", TRUE>>, <<TRUE, "exif_failed", TRUE>>,
        <<TRUE, "exif_failed", FALSE>>, <<TRUE, "unknown_error", FALSE>>}

\* variant: a missing exiftool is reported as no metadata embedded
EmbedStatus_not_found_no_exif(proceed, exif_status) ==
  IF ~proceed THEN "failed_" \o exif_status
  ELSE IF exif_status = "exif_ok" THEN "processed_exif"
  ELSE IF exif_status = "exif_failed" THEN "processed_exif_failed"
  ELSE IF exif_status \in {"no_metadata", "exiftool_not_found"}
  THEN "processed_no_exif"
  ELSE "processed_unknown_exif_status"

\* the status process_vector_file returns for (proceed, exif_status)
EmbedStatus(proceed, exif_status) ==
  IF ~proceed THEN "failed_" \o exif_status
  ELSE IF exif_status = "exif_ok" THEN "processed_exif"
  ELSE IF exif_status = "exif_failed" THEN "processed_exif_failed"
  ELSE IF exif_status = "no_metadata" THEN "processed_no_exif"
  ELSE IF exif_status = "exiftool_not_found" THEN "processed_exif_failed"
  ELSE "processed_unknown_exif_status"

\* the embedding step: the writer raises (caught by the except of the copy
\* block), or hands back a result that is mapped to the status
ExifOutcomes(c, stopNow) ==
  (IF May("exif")
   THEN {VectorReturns([Did(c, "exif_call") EXCEPT !.exif = "raised"],
                       "failed_copy", TRUE, FALSE)}
   ELSE {})
  \cup
  {VectorReturns(
     [(IF r[3] THEN Did(Did(c, "exif_call"), "embed") ELSE Did(c, "exif_call"))
        EXCEPT !.exif = r[2], !.proceed = r[1]],
     EmbedStatus(r[1], r[2]), TRUE, TRUE) : r \in ExifResults(stopNow)}

\* the while loop looking for a name that is not taken: the counter it ends
\* with (new_path is then the name of that number)
RECURSIVE RenameLoop(_, _)
RenameLoop(taken, counter) ==
  IF counter \in taken /\ counter < max_rename_attempts
  THEN RenameLoop(taken, counter + 1)
  ELSE counter

\* variant: the job does not look at the signal when it starts
EntryCheck_ignores_signal(c, stopNow) == {[c EXCEPT !.at = "prepare"]}

\* the first look at the signal, before the try block
EntryCheck(c, stopNow) ==
  IF stopNow THEN {Returns(c, "stopped")}
  ELSE {[c EXCEPT !.at = "prepare"]}

\* the states one step of the job can lead to
JobSteps(c, stopNow) ==
  CASE c.at = "start" -> EntryCheck(c, stopNow)
    [] c.at = "prepare" ->
         IF ~c.input THEN {Returns(c, "failed_input_missing")}
         ELSE {[c EXCEPT !.at = "dispatch"]}
    [] c.at = "dispatch" ->
         IF stopNow THEN {Returns(c, "stopped")}
         ELSE {[c EXCEPT !.at = "vec_start"]}
    [] c.at = "vec_start" ->
         IF stopNow THEN {VectorReturns(c, "stopped", FALSE, FALSE)}
         ELSE IF c.output # "absent"
         THEN {VectorReturns(c, "skipped_exists", FALSE, TRUE)}
         ELSE {[c EXCEPT !.at = "vec_convert"]}
              \cup (IF May("crash") THEN {Crashes(c)} ELSE {})
    [] c.at = "vec_convert" ->
         IF stopNow THEN {VectorReturns(c, "stopped", FALSE, FALSE)}
         ELSE {[Did(c, "convert") EXCEPT !.at = "vec_compress",
                                         !.temp = "converted",
                                         !.files = Converted(@)]}
              \cup (IF May("conversion")
                    THEN {VectorReturns([Did(c, "convert") EXCEPT
                                           !.files = ConversionFailed(@)],
                                        "failed_conversion", FALSE, FALSE)}
                    ELSE {})
    [] c.at = "vec_compress" ->
         {[c EXCEPT !.at = "vec_ai"]}
         \cup (IF "converted" \in c.files /\ ~stopNow
               THEN {[Did(c, "compress") EXCEPT !.at = "vec_ai",
                                                !.temp = "compressed",
                                                !.files = Compressed(@)]}
               ELSE {})
    [] c.at = "vec_ai" ->
         {LET d == [Did(c, "ai") EXCEPT !.ai = r,
                                        !.files = AfterAiCall(@, c.temp)]
          IN IF AiStatus(r) = "ok"
             THEN [d EXCEPT !.at = "vec_copy", !.metadata = TRUE]
             ELSE VectorReturns(d, AiStatus(r), FALSE, FALSE)
          : r \in AiResults(stopNow)}
    [] c.at = "vec_copy" ->
         IF stopNow THEN {VectorReturns(c, "stopped", TRUE, FALSE)}
         ELSE LET d == Did(c, "copy") IN
              {IF embedding_enabled
               THEN [d EXCEPT !.output = "new", !.at = "vec_exif", !.out = TRUE]
               ELSE VectorReturns([d EXCEPT !.output = "new",
                                            !.exif = "not_called"],
                                  "processed_no_exif", TRUE, TRUE)}
              \cup (IF May("copy")
                    THEN {VectorReturns(d, "failed_copy", TRUE, FALSE),
                          VectorReturns([d EXCEPT !.output = "partial"],
                                        "failed_copy", TRUE, FALSE)}
                    ELSE {})
    [] c.at = "vec_exif" -> ExifOutcomes(c, stopNow)
    [] c.at = "post" ->
         IF stopNow THEN {Returns(c, "stopped")}
         ELSE IF c.status \in ProcessedStatuses
         THEN {[c EXCEPT !.at = "rename", !.final = Original]}
         ELSE {[c EXCEPT !.at = "final"]}
    [] c.at = "rename" ->
         IF rename_enabled /\ c.metadata
         THEN LET counter == RenameLoop(c.names, 0) IN
              {IF counter >= max_rename_attempts
               THEN [Did(Did(c, "titled"), "rename_abandoned") EXCEPT
                       !.at = "delete", !.seen = c.names]
               ELSE [Did(c, "titled") EXCEPT !.at = "move", !.target = counter,
                                             !.seen = c.names]}
              \cup (IF May("title") THEN {[c EXCEPT !.at = "delete"]} ELSE {})
              \cup (IF May("crash") THEN {Crashes(c)} ELSE {})
         ELSE {[c EXCEPT !.at = "delete"]}
    [] c.at = "move" ->
         {[Did(IF c.target \in c.names THEN Did(c, "overwrite") ELSE c, "rename")
             EXCEPT !.at = "delete", !.output = "absent", !.final = c.target,
                    !.names = @ \cup {c.target}]}
         \cup (IF May("move")
               THEN {[Did(c, "move_failed") EXCEPT !.at = "delete"]}
               ELSE {})
    [] c.at = "delete" ->
         IF c.input
         THEN {[Did(c, "delete") EXCEPT !.at = "csv", !.input = FALSE]}
              \cup (IF May("delete") THEN {[c EXCEPT !.at = "csv"]} ELSE {})
         ELSE {[c EXCEPT !.at = "csv"]}
    [] c.at = "csv" ->
         IF c.metadata /\ c.out
         THEN {[Did(c, "csv") EXCEPT !.at = "final"]}
              \cup (IF May("csv") THEN {[c EXCEPT !.at = "final"]} ELSE {})
         ELSE {[c EXCEPT !.at = "final"]}
    [] c.at = "final" ->
         IF stopNow THEN {Returns(c, "stopped")} ELSE {Returns(c, c.status)}

\* the temp folder paths of f: inputs with one base name share them
TempSlot(f) == IF env.same_base THEN 1 ELSE f

\* the job of f as JobSteps sees it
JobState(f) ==
  job[f] @@ [effects |-> effects[f], input |-> exists[f], output |-> output[f],
             files |-> temp_raster[TempSlot(f)], names |-> names[ext[f]]]

\* one step of the job of f on its pool thread; when it returns, its
\* future is done
JobStep(f) ==
  /\ env.detailed
  /\ future[f].state = "running"
  /\ \E n \in JobSteps(JobState(f), stop) :
       /\ job' = [job EXCEPT ![f] = [k \in DOMAIN NoJob |-> n[k]]]
       /\ effects' = [effects EXCEPT ![f] = n.effects]
       /\ exists' = [exists EXCEPT ![f] = n.input]
       /\ output' = [output EXCEPT ![f] = n.output]
       /\ temp_raster' = [temp_raster EXCEPT ![TempSlot(f)] = n.files]
       /\ names' = [names EXCEPT ![ext[f]] = n.names]
       /\ future' = IF n.at = "returned"
                    THEN [future EXCEPT ![f] = [state |-> "done", result |-> n.ret]]
                    ELSE future
  /\ UNCHANGED <<coordVars, retryVars, paramVars, libVars, callVars, clockVars, histVars, stop,
                 assigned_key>>

\* a future whose result has been retrieved is not read again
Collected == [state |-> "collected", result |-> "-"]

(* ------------------- entry of batch_process_files ---------------------- *)
\* what the steps before the first pass leave alone
entryFrame ==
  <<file_queue_index, pending_futures, processed_files, done_set,
    current_api_key_index, processed_count, failed_count, skipped_count,
    completed_count, failed_files, retryVars, paramVars, libVars, clockVars, jobVars,
    candidates, gone_at_dequeue, stopHist, rounds, jobHist, stop, exists,
    future, assigned_key>>

\* if should_stop(): return the empty summary; else manage_temp_folders
\* makes the folder temp_compressed in output_dir
EnterCall ==
  /\ pc = "entry"
  /\ IF stop
     THEN /\ pc' = "done"
          /\ UNCHANGED temp_folder
     ELSE /\ pc' = "listdir"
          /\ temp_folder' = TRUE
  /\ UNCHANGED <<progress, stopped_count, tally, entryFrame>>

\* dir_list = os.listdir(input_dir); if it raises, the summary is returned
ListInput ==
  /\ pc = "listdir"
  /\ pc' \in {"enumerate"} \cup (IF May("listdir") THEN {"done"} ELSE {})
  /\ UNCHANGED <<temp_folder, progress, stopped_count, tally, entryFrame>>

\* the loop over dir_list returns the summary when it sees the signal; then
\* total_files == 0 returns the "no_files" summary
EnumerateFiles ==
  /\ pc = "enumerate"
  /\ pc' = IF stop \/ total_files = 0 THEN "done" ELSE "found"
  /\ UNCHANGED <<temp_folder, progress, stopped_count, tally, entryFrame>>

\* progress_callback(0, total_files); if should_stop(): return the summary
\* with stopped_count = total_files
ReportStart ==
  /\ pc = "found"
  /\ progress' = IF env.callback THEN Append(progress, <<0, total_files>>)
                 ELSE progress
  /\ IF stop
     THEN /\ pc' = "done"
          /\ stopped_count' = total_files
          /\ tally' = Bump(tally, 1..total_files, "stopped", 1)
     ELSE /\ pc' = "prefill"
          /\ UNCHANGED <<stopped_count, tally>>
  /\ UNCHANGED <<temp_folder, entryFrame>>

(* --------------------------- first pass -------------------------------- *)
\* files of the queue not yet dequeued (file_queue_index is 0-based)
QueueRest(qi) == {file_queue[i] : i \in (qi + 1)..Len(file_queue)}

\* _submit_next_file: walk the queue from qi; skip paths that are gone or
\* already submitted; give up when the stop signal is seen; count a failed
\* submission (no credential to index) and go on; else submit one job.
\* Result: new index, the submitted path (or NoFile), the paths whose
\* submission raised, and whether the stop check was the reason to return.
\* variant: the path after a submitted one is dequeued with it
RECURSIVE SubmitNextFile_skips(_, _, _)
SubmitNextFile_skips(qi, stopNow, errs) ==
  IF qi >= Len(file_queue)
  THEN [qi |-> qi, sub |-> NoFile, errs |-> errs, hitStop |-> FALSE]
  ELSE LET input_path == file_queue[qi + 1] IN
       IF ~exists[input_path] \/ input_path \in processed_files
       THEN SubmitNextFile_skips(qi + 1, stopNow, errs)
       ELSE IF stopNow
       THEN [qi |-> qi + 1, sub |-> NoFile, errs |-> errs, hitStop |-> TRUE]
       ELSE IF num_keys = 0
       THEN SubmitNextFile_skips(qi + 1, stopNow, errs \cup {input_path})
       ELSE [qi |-> Min(qi + 2, Len(file_queue)), sub |-> input_path,
             errs |-> errs, hitStop |-> FALSE]

\* variant: a submission that raises ends the call
RECURSIVE SubmitNextFile_gives_up(_, _, _)
SubmitNextFile_gives_up(qi, stopNow, errs) ==
  IF qi >= Len(file_queue)
  THEN [qi |-> qi, sub |-> NoFile, errs |-> errs, hitStop |-> FALSE]
  ELSE LET input_path == file_queue[qi + 1] IN
       IF ~exists[input_path] \/ input_path \in processed_files
       THEN SubmitNextFile_gives_up(qi + 1, stopNow, errs)
       ELSE IF stopNow
       THEN [qi |-> qi + 1, sub |-> NoFile, errs |-> errs, hitStop |-> TRUE]
       ELSE IF num_keys = 0
       THEN [qi |-> qi + 1, sub |-> NoFile, errs |-> errs \cup {input_path},
             hitStop |-> FALSE]
       ELSE [qi |-> qi + 1, sub |-> input_path, errs |-> errs, hitStop |-> FALSE]

RECURSIVE SubmitNextFile(_, _, _)
SubmitNextFile(qi, stopNow, errs) ==
  IF qi >= Len(file_queue)
  THEN [qi |-> qi, sub |-> NoFile, errs |-> errs, hitStop |-> FALSE]
  ELSE LET input_path == file_queue[qi + 1] IN
       IF ~exists[input_path] \/ input_path \in processed_files
       THEN SubmitNextFile(qi + 1, stopNow, errs)
       ELSE IF stopNow
       THEN [qi |-> qi + 1, sub |-> NoFile, errs |-> errs, hitStop |-> TRUE]
       ELSE IF num_keys = 0
       THEN SubmitNextFile(qi + 1, stopNow, errs \cup {input_path})
       ELSE [qi |-> qi + 1, sub |-> input_path, errs |-> errs, hitStop |-> FALSE]

\* the call is not made: nothing is dequeued
NoSubmit(qi) == [qi |-> qi, sub |-> NoFile, errs |-> {}, hitStop |-> FALSE]

\* variant: only the statuses of the first branch count as processed
CountsProcessed_first_branch(status) ==
  status \in {"processed_exif", "processed_no_exif"}

\* the statuses _handle_result adds to processed_count (its two branches)
CountsProcessed(status) ==
  \/ status \in {"processed_exif", "processed_no_exif"}
  \/ status \in {"processed_exif_failed", "processed_unknown_exif_status"}

\* variant: a new entry starts at attempt 0
Append3_attempt_zero(reg, fp, st, att) == Append(reg, <<fp, st, 0>>)

\* the registry after appending one entry
Append3(reg, fp, st, att) == Append(reg, <<fp, st, att>>)

\* _handle_result: fold one finished future into the counters and registry.
\* Yields the new values (the caller adds the effect of the next submission).
HandleResult(f) ==
  LET result == future[f].result
      base   == [processed_count |-> processed_count, failed_count |-> failed_count,
                 skipped_count |-> skipped_count, stopped_count |-> stopped_count,
                 completed_count |-> completed_count, failed_files |-> failed_files]
  IN
  IF result = TIMEOUT
  THEN [base EXCEPT !.completed_count = @ + 1, !.failed_count = @ + 1,
                    !.failed_files = Append3(@, f, "failed_timeout", 1)]
  ELSE IF result = RAISES
  THEN [base EXCEPT !.failed_count = @ + 1,
                    !.failed_files = Append3(@, f, "failed_exception", 1)]
  ELSE IF result = EMPTY
  THEN [base EXCEPT !.completed_count = @ + 1, !.failed_count = @ + 1]
  ELSE IF CountsProcessed(result)
  THEN [base EXCEPT !.completed_count = @ + 1, !.processed_count = @ + 1]
  ELSE IF result = "skipped_exists"
  THEN [base EXCEPT !.completed_count = @ + 1, !.skipped_count = @ + 1]
  ELSE IF result = "stopped"
  THEN [base EXCEPT !.completed_count = @ + 1, !.stopped_count = @ + 1]
  ELSE [base EXCEPT !.completed_count = @ + 1, !.failed_count = @ + 1,
                    !.failed_files = Append3(@, f, result, 1)]

\* history: the coordinator's should_stop() returned True for the first time
Observe(saw, pass, pend, uncollected) ==
  IF saw /\ ~seen_stop
  THEN /\ seen_stop' = TRUE
       /\ seen_pass' = pass
       /\ running_at_stop' = Running(pend)
       /\ uncollected_at_stop' = uncollected
  ELSE UNCHANGED stopHist

\* first pass: the files whose job has not been collected
Uncollected(pend) == pend \cup {f \in QueueRest(file_queue_index) : exists[f]}

\* executor.submit of process_single_file for f (if any): the job starts
\* with fresh locals; history: one more execution of f, the submit_seq-th
\* submission of the run
CountExec(f) ==
  /\ IF env.history /\ f # NoFile
     THEN execs' = [execs EXCEPT ![f] = Min(@ + 1, MaxExec)]
     ELSE UNCHANGED execs
  /\ IF env.log /\ f # NoFile
     THEN /\ submit_no' = [submit_no EXCEPT ![f] = submit_seq]
          /\ submit_seq' = submit_seq + 1
     ELSE UNCHANGED <<submit_seq, submit_no>>
  /\ IF env.detailed /\ f # NoFile
     THEN /\ job' = [job EXCEPT ![f] = NewJob(output[f])]
          /\ effects' = [effects EXCEPT ![f] = {}]
     ELSE UNCHANGED <<job, effects>>
  /\ UNCHANGED <<output, temp_raster, names>>

\* executor.submit: the job of path sub (if any) starts on a pool thread
Started(fut, sub) ==
  IF sub = NoFile THEN fut
  ELSE [fut EXCEPT ![sub] = [state |-> "running", result |-> "-"]]

\* variant: the pool slot test lets one job too many in
HasFreeSlot_inclusive(pending) == Cardinality(pending) <= num_workers

\* the pool slot test of the pre-fill loop
HasFreeSlot(pending) == Cardinality(pending) < num_workers

\* the per-file delay: the time at which the cooldown loop lets a submission
\* through, given the time of the last one (0: none yet)
Wake(last) ==
  IF delay_seconds > 0 /\ last > 0 /\ now < last + delay_seconds
  THEN last + delay_seconds ELSE now

\* the clock after one submit call r: a submission (or one that raised) has
\* sat out the cooldown, a call cut short by the signal left it at any time
\* up to its end, a call that found nothing to submit took no time
AfterCall(r, raised, last) ==
  IF r.sub # NoFile \/ raised THEN {Wake(last)}
  ELSE IF r.hitStop THEN now..Wake(last) ELSE {now}

\* variant: the credential index is not advanced
NextKeyIndex_stuck(i) == i

\* assigned_api_key = api_keys[i % len(api_keys)], then the index moves on
AssignedKey(i)  == i % num_keys
NextKeyIndex(i) == (i + 1) % num_keys

\* effect of one _submit_next_file call r on the submission state
ApplySubmit(r, pend) ==
  /\ file_queue_index' = r.qi
  /\ CountExec(r.sub)
  /\ now' \in AfterCall(r, r.errs # {}, last_submit_time)
  /\ last_submit_time' = IF r.sub # NoFile THEN now' ELSE last_submit_time
  /\ prev_submit' = IF r.sub # NoFile THEN now' ELSE prev_submit
  /\ UNCHANGED retry_last_submit
  /\ IF r.sub # NoFile
     THEN /\ assigned_key' = [assigned_key EXCEPT ![r.sub] =
                                AssignedKey(current_api_key_index)]
          /\ current_api_key_index' = NextKeyIndex(current_api_key_index)
          /\ pending_futures' = pend \cup {r.sub}
          /\ processed_files' = processed_files \cup {r.sub}
     ELSE /\ pending_futures' = pend
          /\ UNCHANGED <<assigned_key, current_api_key_index, processed_files>>

\* pre-fill loop: one iteration of
\*   while len(pending_futures) < W and not should_stop(): submit or break
PrefillStep ==
  /\ pc = "prefill"
  /\ IF HasFreeSlot(pending_futures) /\ ~stop
     THEN \E stopDuring \in {FALSE, env.may_stop} :
            LET r == SubmitNextFile(file_queue_index, stopDuring, {}) IN
            /\ stopDuring = r.hitStop
            /\ stop' = stopDuring
            /\ ApplySubmit(r, pending_futures)
            /\ future' = Started(future, r.sub)
            /\ failed_count' = failed_count + Cardinality(r.errs)
            /\ completed_count' = completed_count + Cardinality(r.errs)
            /\ tally' = Bump(tally, r.errs, "failed", 1)
            /\ pc' = IF r.sub # NoFile THEN "prefill" ELSE "wait"
            /\ Observe(r.hitStop, 0, pending_futures, Uncollected(pending_futures))
     ELSE /\ pc' = "wait"
          /\ Observe(stop, 0, pending_futures, Uncollected(pending_futures))
          /\ UNCHANGED <<clockVars, jobVars, stop, file_queue_index, future, assigned_key,
                         current_api_key_index, pending_futures, processed_files,
                         execs, submit_seq, submit_no, failed_count,
                         completed_count, tally>>
  /\ UNCHANGED <<done_set, processed_count, skipped_count, stopped_count,
                 failed_files, retryVars, paramVars, libVars, callVars, exists, candidates,
                 gone_at_dequeue, rounds, last_outcome, same_outcome>>

\* sliding-window loop head: while pending_futures and not should_stop():
\*   done_set = wait(pending, FIRST_COMPLETED); if should_stop(): break
WaitStep ==
  /\ pc = "wait"
  /\ IF pending_futures = {} \/ stop
     THEN /\ pc' = "cancel"
          /\ done_set' = {}
     ELSE /\ \E f \in pending_futures : future[f].state = "done"
          /\ done_set' = {f \in pending_futures : future[f].state = "done"}
          /\ pc' = "collect"
  /\ Observe(stop, 0, pending_futures, Uncollected(pending_futures))
  /\ UNCHANGED <<clockVars, jobVars, file_queue_index, pending_futures, processed_files,
                 current_api_key_index, processed_count, failed_count,
                 skipped_count, stopped_count, completed_count, failed_files,
                 retryVars, paramVars, libVars, callVars, stop, exists, future, assigned_key,
                 tally, candidates, gone_at_dequeue, rounds, jobHist>>

\* variant: the callback is given the number of files left
ReportedProgress_remaining(completed) == <<total_files - completed, total_files>>

\* the arguments of the progress_callback call that ends _handle_result
ReportedProgress(completed) == <<completed, total_files>>

\* the calls of progress_callback after _handle_result of a future with this
\* result has left the counters as h (a falsy result returns before the call)
Reported(result, h) ==
  IF env.callback /\ result # EMPTY
  THEN Append(progress, ReportedProgress(h.completed_count))
  ELSE progress

\* body of "for done_future in done_set": discard, _handle_result, and, if
\* no stop is pending, _submit_next_file; after the last one, wait again
CollectOne ==
  /\ pc = "collect"
  /\ \E f \in done_set : \E stopDuring \in {FALSE, env.may_stop} :
       LET h    == HandleResult(f)
           pend == pending_futures \ {f}
           r    == IF stop THEN NoSubmit(file_queue_index)
                   ELSE SubmitNextFile(file_queue_index, stopDuring, {})
           t1   == Folded(tally, f, h.processed_count - processed_count,
                          h.failed_count - failed_count,
                          h.skipped_count - skipped_count,
                          h.stopped_count - stopped_count)
       IN
       /\ stopDuring = r.hitStop
       /\ stop' = (stop \/ stopDuring)
       /\ done_set' = done_set \ {f}
       /\ pc' = IF done_set' = {} THEN "wait" ELSE "collect"
       /\ ApplySubmit(r, pend)
       /\ future' = Started([future EXCEPT ![f] = Collected], r.sub)
       /\ processed_count' = h.processed_count
       /\ skipped_count' = h.skipped_count
       /\ stopped_count' = h.stopped_count
       /\ failed_files' = h.failed_files
       /\ failed_count' = h.failed_count + Cardinality(r.errs)
       /\ completed_count' = h.completed_count + Cardinality(r.errs)
       /\ tally' = Bump(t1, r.errs, "failed", 1)
       /\ progress' = Reported(future[f].result, h)
       /\ Observe(stop \/ r.hitStop, 0, pend, Uncollected(pend))
  /\ UNCHANGED <<retryVars, paramVars, libVars, temp_folder, exists, candidates, gone_at_dequeue,
                 rounds, last_outcome, same_outcome>>

\* after the loop: if should_stop(): cancel what is not done and count it
CancelRemaining ==
  /\ pc = "cancel"
  /\ IF stop
     THEN LET remaining_submitted == Cardinality(Running(pending_futures)) IN
          /\ stopped_count' = stopped_count + remaining_submitted
          /\ completed_count' = completed_count + remaining_submitted
          /\ tally' = Bump(tally, Running(pending_futures), "stopped", 1)
     ELSE UNCHANGED <<stopped_count, completed_count, tally>>
  /\ Observe(stop, 0, pending_futures, Uncollected(pending_futures))
  /\ pc' = "shutdown"
  /\ UNCHANGED <<clockVars, jobVars, file_queue_index, pending_futures, processed_files, done_set,
                 current_api_key_index, processed_count, failed_count,
                 skipped_count, failed_files, retryVars, paramVars, libVars, callVars, stop,
                 exists, future, assigned_key, candidates, gone_at_dequeue,
                 rounds, jobHist>>


\* leaving "with ThreadPoolExecutor(...)": shutdown(wait=True) returns once
\* every submitted job has finished
ExecutorShutdown ==
  /\ pc = "shutdown"
  /\ \A f \in Files : future[f].state # "running"
  /\ pc' = "retry_gate"
  /\ UNCHANGED <<clockVars, jobVars, file_queue_index, pending_futures, processed_files, done_set,
                 current_api_key_index, processed_count, failed_count,
                 skipped_count, stopped_count, completed_count, failed_files,
                 retryVars, paramVars, libVars, callVars, histVars, stop, exists, future,
                 assigned_key>>

(* --------------------------- retry rounds ------------------------------ *)
\* first registry entry of a path: <<status, attempt>>, or the defaults the
\* candidate loop starts from when there is none
RegistryLookup(reg, fp) ==
  LET idx == {i \in 1..Len(reg) : reg[i][1] = fp} IN
  IF idx = {} THEN <<"failed_unknown", 1>>
  ELSE LET i == CHOOSE i \in idx : \A j \in idx : i <= j IN <<reg[i][2], reg[i][3]>>

\* variant: every registered failure whose input exists is retried
InitialRetryFiles_all(reg) ==
  LET kept == SelectSeq(reg, LAMBDA e : exists[e[1]])
  IN [i \in 1..Len(kept) |-> kept[i][1]]

\* the initial partition: retryable_failed_files, then retry_files
InitialRetryFiles(reg) ==
  LET keep(e) == exists[e[1]] /\ is_retryable(e[2], e[3])
      kept == SelectSeq(reg, keep)
  IN [i \in 1..Len(kept) |-> kept[i][1]]

\* variant: the next round's candidates are not checked for existence
NextRetryFiles_unchecked(cur, reg) ==
  LET keep(fp) == is_retryable(RegistryLookup(reg, fp)[1],
                               RegistryLookup(reg, fp)[2])
  IN SelectSeq(cur, keep)

\* the candidate list of the next round, from current_retry_failed_files
NextRetryFiles(cur, reg) ==
  LET keep(fp) == /\ exists[fp]
                  /\ is_retryable(RegistryLookup(reg, fp)[1],
                                  RegistryLookup(reg, fp)[2])
  IN SelectSeq(cur, keep)

\* history: the files run in a pass that hold a registry entry whose status
\* is in the policy table with attempt below its cap, and still exist
RetryableRan(ran, reg) ==
  {f \in ran : /\ exists[f]
               /\ \E i \in 1..Len(reg) :
                    /\ reg[i][1] = f
                    /\ reg[i][2] \in RetryableNames
                    /\ reg[i][3] < RETRYABLE_STATUSES[reg[i][2]]}

\* the way to the summary: cleanup_temp_compression_folder removes the files
\* of the temp folder and the folder (next: where the coordinator goes)
Finish(next) ==
  IF next = "done"
  THEN /\ temp_folder' = FALSE
       /\ temp_raster' = [f \in Files |-> {}]
  ELSE UNCHANGED <<temp_folder, temp_raster>>

\* variant: the gate does not look at the auto-retry setting
RetryGateCondition_any_setting == failed_count > 0 /\ ~stop

\* the condition of the retry gate
RetryGateCondition == auto_retry_enabled /\ failed_count > 0 /\ ~stop

\* if auto_retry_enabled and failed_count > 0 and not should_stop(): partition
RetryGate ==
  /\ pc = "retry_gate"
  /\ IF RetryGateCondition
     THEN /\ retry_files' = InitialRetryFiles(failed_files)
          /\ pc' = "retry_loop"
     ELSE /\ pc' = "done"
          /\ UNCHANGED retry_files
  /\ candidates' = RetryableRan(processed_files, failed_files)
  /\ Finish(pc')
  /\ Observe(stop, 1, {}, {})
  /\ UNCHANGED <<clockVars, output, names, job, effects, file_queue_index, pending_futures, processed_files, done_set,
                 current_api_key_index, processed_count, failed_count,
                 skipped_count, stopped_count, completed_count, failed_files,
                 retry_queue_index, retry_pending, retry_processed_files,
                 current_retry_failed_files, retry_processed, retry_failed,
                 retry_stopped, paramVars, libVars, progress, stop, exists, future, assigned_key,
                 tally, gone_at_dequeue, rounds, jobHist>>

\* variant: the loop condition does not look at the signal
RetryLoopCondition_ignores_stop == retry_files # <<>>

\* the condition of "while retry_files and not should_stop()"
RetryLoopCondition == retry_files # <<>> /\ ~stop

\* while retry_files and not should_stop(): start a round with fresh state
RetryLoopHead ==
  /\ pc = "retry_loop"
  /\ IF RetryLoopCondition
     THEN /\ pc' = "retry_prefill"
          /\ retry_processed' = 0 /\ retry_failed' = 0 /\ retry_stopped' = 0
          /\ retry_processed_files' = {}
          /\ current_retry_failed_files' = <<>>
          /\ retry_pending' = {}
          /\ retry_queue_index' = 0
          /\ retry_last_submit' = 0
          /\ gone_at_dequeue' = {}
          /\ rounds' = IF env.history THEN Min(rounds + 1, MaxRounds) ELSE rounds
     ELSE /\ pc' = "done"
          /\ UNCHANGED <<retry_processed, retry_failed, retry_stopped,
                         retry_processed_files, current_retry_failed_files,
                         retry_pending, retry_queue_index, retry_last_submit,
                         gone_at_dequeue, rounds>>
  /\ Finish(pc')
  /\ Observe(stop, 1, {}, {})
  /\ UNCHANGED <<output, names, job, effects, now, last_submit_time, prev_submit, file_queue_index, pending_futures, processed_files, done_set,
                 current_api_key_index, processed_count, failed_count,
                 skipped_count, stopped_count, completed_count, failed_files,
                 retry_files, paramVars, libVars, progress, stop, exists, future, assigned_key,
                 tally, candidates, jobHist>>

\* _submit_retry_file: as _submit_next_file, over retry_files; a submission
\* that raises is a failure of the round and stays a candidate
RECURSIVE SubmitRetryFile(_, _, _)
SubmitRetryFile(qi, stopNow, errs) ==
  IF qi >= Len(retry_files)
  THEN [qi |-> qi, sub |-> NoFile, errs |-> errs, hitStop |-> FALSE]
  ELSE LET input_path == retry_files[qi + 1] IN
       IF ~exists[input_path] \/ input_path \in retry_processed_files
       THEN SubmitRetryFile(qi + 1, stopNow, errs)
       ELSE IF stopNow
       THEN [qi |-> qi + 1, sub |-> NoFile, errs |-> errs, hitStop |-> TRUE]
       ELSE IF num_keys = 0
       THEN SubmitRetryFile(qi + 1, stopNow, Append(errs, input_path))
       ELSE [qi |-> qi + 1, sub |-> input_path, errs |-> errs, hitStop |-> FALSE]

\* the call is not made
NoRetrySubmit(qi) == [qi |-> qi, sub |-> NoFile, errs |-> <<>>, hitStop |-> FALSE]

\* history: the candidates a call dequeued and skipped because they are gone
GoneBetween(qi, qj) == {retry_files[i] : i \in (qi + 1)..qj} \cap {f \in Files : ~exists[f]}

ApplyRetrySubmit(r, pend) ==
  /\ retry_queue_index' = r.qi
  /\ gone_at_dequeue' = gone_at_dequeue \cup GoneBetween(retry_queue_index, r.qi)
  /\ CountExec(r.sub)
  /\ now' \in AfterCall(r, r.errs # <<>>, retry_last_submit)
  /\ retry_last_submit' = IF r.sub # NoFile THEN now' ELSE retry_last_submit
  /\ prev_submit' = IF r.sub # NoFile THEN now' ELSE prev_submit
  /\ UNCHANGED last_submit_time
  /\ IF r.sub # NoFile
     THEN /\ assigned_key' = [assigned_key EXCEPT ![r.sub] =
                                AssignedKey(current_api_key_index)]
          /\ current_api_key_index' = NextKeyIndex(current_api_key_index)
          /\ retry_pending' = pend \cup {r.sub}
          /\ retry_processed_files' = retry_processed_files \cup {r.sub}
     ELSE /\ retry_pending' = pend
          /\ UNCHANGED <<assigned_key, current_api_key_index,
                         retry_processed_files>>

\* variant: the retry pool is filled to one job short of the worker count
HasFreeRetrySlot_one_short(pending) == Cardinality(pending) < num_workers - 1

\* the pool slot test of the retry pre-fill loop
HasFreeRetrySlot(pending) == Cardinality(pending) < num_workers

\* retry pre-fill loop, one iteration
RetryPrefillStep ==
  /\ pc = "retry_prefill"
  /\ IF HasFreeRetrySlot(retry_pending) /\ ~stop
     THEN \E stopDuring \in {FALSE, env.may_stop} :
            LET r == SubmitRetryFile(retry_queue_index, stopDuring, <<>>) IN
            /\ stopDuring = r.hitStop
            /\ stop' = stopDuring
            /\ ApplyRetrySubmit(r, retry_pending)
            /\ future' = Started(future, r.sub)
            /\ retry_failed' = retry_failed + Len(r.errs)
            /\ current_retry_failed_files' = current_retry_failed_files \o r.errs
            /\ pc' = IF r.sub # NoFile THEN "retry_prefill" ELSE "retry_wait"
            /\ Observe(r.hitStop, 1, retry_pending, {})
     ELSE /\ pc' = "retry_wait"
          /\ Observe(stop, 1, retry_pending, {})
          /\ UNCHANGED <<clockVars, jobVars, stop, retry_queue_index, future, assigned_key,
                         current_api_key_index, retry_pending,
                         retry_processed_files, execs, submit_seq, submit_no,
                         retry_failed, current_retry_failed_files,
                         gone_at_dequeue>>
  /\ UNCHANGED <<file_queue_index, pending_futures, processed_files, done_set,
                 processed_count, failed_count, skipped_count, stopped_count,
                 completed_count, failed_files, retry_files, retry_processed,
                 retry_stopped, paramVars, libVars, callVars, exists, tally, candidates, rounds,
                 last_outcome, same_outcome>>

\* retry sliding-window loop head; on leaving the loop with the signal set
\* the unfinished futures are cancelled (a running job cannot be) and
\* nothing is counted
RetryWaitStep ==
  /\ pc = "retry_wait"
  /\ IF retry_pending = {} \/ stop
     THEN /\ pc' = "retry_shutdown"
          /\ done_set' = {}
     ELSE /\ \E f \in retry_pending : future[f].state = "done"
          /\ done_set' = {f \in retry_pending : future[f].state = "done"}
          /\ pc' = "retry_collect"
  /\ Observe(stop, 1, retry_pending, {})
  /\ UNCHANGED <<clockVars, jobVars, file_queue_index, pending_futures, processed_files,
                 current_api_key_index, processed_count, failed_count,
                 skipped_count, stopped_count, completed_count, failed_files,
                 retryVars, paramVars, libVars, callVars, stop, exists, future, assigned_key,
                 tally, candidates, gone_at_dequeue, rounds, jobHist>>

\* the registry with the entry of fp re-stamped (status, attempt + 1)
UpdatedFailedFiles(reg, fp, status) ==
  [i \in 1..Len(reg) |->
     IF reg[i][1] = fp THEN <<fp, status, reg[i][3] + 1>> ELSE reg[i]]

\* new_attempt of the re-stamp loop: attempt + 1 of the last matching entry
NewAttempt(reg, fp) ==
  LET idx == {i \in 1..Len(reg) : reg[i][1] = fp} IN
  IF idx = {} THEN 1
  ELSE reg[CHOOSE i \in idx : \A j \in idx : i >= j][3] + 1

\* variant: a retry success leaves the registry as it is
WithoutPath_keeps_all(reg, fp) == reg

\* the registry without the entries of fp
WithoutPath(reg, fp) == SelectSeq(reg, LAMBDA e : e[1] # fp)

\* variant: a retry success is counted as processed without being taken
\* out of the failures
HandleRetryResult_keeps_failed(f) ==
  LET result == future[f].result
      base   == [processed_count |-> processed_count, failed_count |-> failed_count,
                 failed_files |-> failed_files, retry_processed |-> retry_processed,
                 retry_failed |-> retry_failed, retry_stopped |-> retry_stopped,
                 current |-> current_retry_failed_files]
  IN
  IF result \in {RAISES, TIMEOUT, EMPTY}
  THEN [base EXCEPT !.retry_failed = @ + 1, !.current = Append(@, f)]
  ELSE IF result \in ProcessedStatuses
  THEN [base EXCEPT !.retry_processed = @ + 1, !.processed_count = @ + 1,
                    !.failed_files = WithoutPath(@, f)]
  ELSE IF result = "stopped"
  THEN [base EXCEPT !.retry_stopped = @ + 1]
  ELSE [base EXCEPT !.retry_failed = @ + 1,
                    !.failed_files = UpdatedFailedFiles(@, f, result),
                    !.current = IF is_retryable(result, NewAttempt(failed_files, f))
                                THEN Append(@, f) ELSE @]

\* the result handling of a retry round (body of the try/except)
HandleRetryResult(f) ==
  LET result == future[f].result
      base   == [processed_count |-> processed_count, failed_count |-> failed_count,
                 failed_files |-> failed_files, retry_processed |-> retry_processed,
                 retry_failed |-> retry_failed, retry_stopped |-> retry_stopped,
                 current |-> current_retry_failed_files]
  IN
  IF result \in {RAISES, TIMEOUT, EMPTY}
  THEN [base EXCEPT !.retry_failed = @ + 1, !.current = Append(@, f)]
  ELSE IF result \in ProcessedStatuses
  THEN [base EXCEPT !.retry_processed = @ + 1, !.processed_count = @ + 1,
                    !.failed_count = @ - 1,
                    !.failed_files = WithoutPath(@, f)]
  ELSE IF result = "stopped"
  THEN [base EXCEPT !.retry_stopped = @ + 1]
  ELSE [base EXCEPT !.retry_failed = @ + 1,
                    !.failed_files = UpdatedFailedFiles(@, f, result),
                    !.current = IF is_retryable(result, NewAttempt(failed_files, f))
                                THEN Append(@, f) ELSE @]

\* body of the retry "for done_future in done_set"
RetryCollectOne ==
  /\ pc = "retry_collect"
  /\ \E f \in done_set : \E stopDuring \in {FALSE, env.may_stop} :
       LET h    == HandleRetryResult(f)
           pend == retry_pending \ {f}
           r    == IF stop THEN NoRetrySubmit(retry_queue_index)
                   ELSE SubmitRetryFile(retry_queue_index, stopDuring, <<>>)
       IN
       /\ stopDuring = r.hitStop
       /\ stop' = (stop \/ stopDuring)
       /\ done_set' = done_set \ {f}
       /\ pc' = IF done_set' = {} THEN "retry_wait" ELSE "retry_collect"
       /\ ApplyRetrySubmit(r, pend)
       /\ future' = Started([future EXCEPT ![f] = Collected], r.sub)
       /\ processed_count' = h.processed_count
       /\ failed_count' = h.failed_count
       /\ failed_files' = h.failed_files
       /\ retry_processed' = h.retry_processed
       /\ retry_stopped' = h.retry_stopped
       /\ retry_failed' = h.retry_failed + Len(r.errs)
       /\ current_retry_failed_files' = h.current \o r.errs
       /\ tally' = Folded(tally, f, h.processed_count - processed_count,
                          h.failed_count - failed_count, 0, 0)
       /\ Observe(stop \/ r.hitStop, 1, pend, {})
  /\ UNCHANGED <<file_queue_index, pending_futures, processed_files,
                 skipped_count, stopped_count, completed_count, retry_files,
                 paramVars, libVars, callVars, exists, candidates, rounds, last_outcome,
                 same_outcome>>

\* end of a round: leave the executor (which waits for its jobs), rebuild
\* retry_files, and break when the round neither processed anything nor
\* left a candidate
RetryRoundEnd ==
  /\ pc = "retry_shutdown"
  /\ \A f \in Files : future[f].state # "running"
  /\ retry_files' = NextRetryFiles(current_retry_failed_files, failed_files)
  /\ candidates' = RetryableRan(retry_processed_files, failed_files)
  /\ pc' = IF retry_processed = 0 /\ Len(retry_files') = 0
           THEN "done" ELSE "retry_loop"
  /\ Finish(pc')
  /\ Observe(stop, 1, retry_pending, {})
  /\ UNCHANGED <<clockVars, output, names, job, effects, file_queue_index, pending_futures, processed_files, done_set,
                 current_api_key_index, processed_count, failed_count,
                 skipped_count, stopped_count, completed_count, failed_files,
                 retry_queue_index, retry_pending, retry_processed_files,
                 current_retry_failed_files, retry_processed, retry_failed,
                 retry_stopped, paramVars, libVars, progress, stop, exists, future, assigned_key,
                 tally, gone_at_dequeue, rounds, jobHist>>

Next ==
  \/ SetStop
  \/ \E f \in Files : Vanish(f)
  \/ \E f \in Files : JobComplete(f)
  \/ PrefillStep
  \/ WaitStep
  \/ CollectOne
  \/ CancelRemaining
  \/ ExecutorShutdown
  \/ RetryGate
  \/ RetryLoopHead
  \/ RetryPrefillStep
  \/ RetryWaitStep
  \/ RetryCollectOne
  \/ RetryRoundEnd

Spec == Init /\ [][Next]_vars

(* ---- the whole call, from its entry, with a progress callback --------- *)
CallInit ==
  /\ \E n \in 0..FewFiles : InitAt([CallEnv EXCEPT !.files = n], "entry")
  /\ LibIdle
  /\ auto_retry_enabled \in BOOLEAN

CallNext ==
  \/ EnterCall
  \/ ListInput
  \/ EnumerateFiles
  \/ ReportStart
  \/ Next

CallSpec == CallInit /\ [][CallNext]_vars

(* ---- runs without cancellation or vanishing inputs, auto-retry on ----- *)
RetryInit ==
  /\ InitWith(RetryEnv)
  /\ auto_retry_enabled = TRUE

RetryNext ==
  \/ \E f \in Files : JobComplete(f)
  \/ PrefillStep
  \/ WaitStep
  \/ CollectOne
  \/ CancelRemaining
  \/ ExecutorShutdown
  \/ RetryGate
  \/ RetryLoopHead
  \/ RetryPrefillStep
  \/ RetryWaitStep
  \/ RetryCollectOne
  \/ RetryRoundEnd

RetrySpec == RetryInit /\ [][RetryNext]_vars

(* ---- runs that are not cancelled and whose jobs all complete ----------- *)
\* inputs may vanish or not; the pool threads and the coordinator keep
\* running (weak fairness of the program's steps)
LiveInit ==
  /\ \E v \in BOOLEAN : InitWith([LiveEnv EXCEPT !.may_vanish = v])
  /\ auto_retry_enabled \in BOOLEAN

LiveNext ==
  \/ \E f \in Files : Vanish(f)
  \/ RetryNext

LiveSpec == LiveInit /\ [][LiveNext]_vars /\ WF_vars(RetryNext)

(* ---- three files, up to ManyKeys credentials, no cancellation --------- *)
KeyInit ==
  /\ InitWith(KeyEnv)
  /\ auto_retry_enabled \in BOOLEAN

KeySpec == KeyInit /\ [][RetryNext]_vars

(* ---- runs with a per-file delay, under a clock ------------------------- *)
DelayInit ==
  /\ InitWith(DelayEnv)
  /\ auto_retry_enabled = TRUE

DelayNext ==
  \/ Tick
  \/ RetryNext

DelaySpec == DelayInit /\ [][DelayNext]_vars

(* ---- one to NumFiles files, processed or failed_api, with or without delay *)
SummaryInit ==
  /\ \E n \in 1..NumFiles : InitWith([SummaryEnv EXCEPT !.files = n])
  /\ auto_retry_enabled \in BOOLEAN

SummarySpec == SummaryInit /\ [][RetryNext]_vars

(* ---- one vector file, its job followed step by step -------------------- *)
JobInit ==
  /\ InitWith(JobEnv)
  /\ auto_retry_enabled \in BOOLEAN

JobNext ==
  \/ SetStop
  \/ \E f \in Files : Vanish(f)
  \/ \E f \in Files : JobStep(f)
  \/ PrefillStep
  \/ WaitStep
  \/ CollectOne
  \/ CancelRemaining
  \/ ExecutorShutdown
  \/ RetryGate
  \/ RetryLoopHead
  \/ RetryPrefillStep
  \/ RetryWaitStep
  \/ RetryCollectOne
  \/ RetryRoundEnd

JobSpec == JobInit /\ [][JobNext]_vars

(* ---- jobs followed step by step, no cancellation, inputs stay --------- *)
DetailNext ==
  \/ \E f \in Files : JobStep(f)
  \/ PrefillStep
  \/ WaitStep
  \/ CollectOne
  \/ CancelRemaining
  \/ ExecutorShutdown
  \/ RetryGate
  \/ RetryLoopHead
  \/ RetryPrefillStep
  \/ RetryWaitStep
  \/ RetryCollectOne
  \/ RetryRoundEnd

(* ---- one file renamed to a title with some of its names taken ---------- *)
RenameInit ==
  /\ InitWith(RenameEnv)
  /\ auto_retry_enabled \in BOOLEAN

RenameSpec == RenameInit /\ [][DetailNext]_vars

(* ---- two vector files given one title, with one base name or not ------- *)
PairInit ==
  /\ \E sb \in BOOLEAN : InitWith([PairEnv EXCEPT !.same_base = sb])
  /\ env.same_base => ext[1] # ext[2]
  /\ auto_retry_enabled \in BOOLEAN

PairSpec == PairInit /\ [][DetailNext]_vars

(* ---------------- library functions studied on their own -------------- *)
\* no call of batch_process_files is under way
IdleEnv == [BaseEnv EXCEPT !.files = 0, !.keys = {1}]

RunIdle ==
  /\ InitAt(IdleEnv, "entry")
  /\ num_workers = 1
  /\ auto_retry_enabled = FALSE

\* what a library function leaves alone
libFrame ==
  <<coordVars, retryVars, paramVars, clockVars, jobVars, histVars, callVars,
    stop, exists, future, assigned_key>>

Max(a, b) == IF a > b THEN a ELSE b

\* int(cpu_count * 1.5): the product is exact in binary floating point for
\* these counts, int() drops its fraction
IntOfTimes1_5(c) == (c * 15) \div 10

\* variant: the result is not raised to 4
get_recommended_workers_no_floor(cpu) ==
  LET cpu_count == IF cpu = 0 THEN 4 ELSE cpu
  IN Min(IntOfTimes1_5(cpu_count), 100)

\* get_recommended_workers() on a machine where os.cpu_count() is cpu (0:
\* None, the count is unknown)
get_recommended_workers(cpu) ==
  LET cpu_count   == IF cpu = 0 THEN 4 ELSE cpu
      recommended == Min(IntOfTimes1_5(cpu_count), 100)
  IN Max(recommended, 4)

\* the call returns
Recommend ==
  /\ call.fn = "get_recommended_workers"
  /\ returned = <<>>
  /\ returned' = <<get_recommended_workers(call.cpu_count)>>
  /\ UNCHANGED <<call, cacheVars, libFrame>>

(* ---- get_recommended_workers on machines of 1..MaxCpu logical CPUs ----- *)
WorkersInit ==
  /\ RunIdle
  /\ CacheIdle
  /\ \E c \in 0..MaxCpu : call = [fn |-> "get_recommended_workers",
                                  cpu_count |-> c]
  /\ returned = <<>>

WorkersNext == Recommend

WorkersSpec == WorkersInit /\ [][WorkersNext]_vars

(* ---- the metadata writers, on every course a call can take ------------ *)
\* how the exiftool process of the new metadata ends: exit code 0 or not,
\* a timeout, the executable is not found, any other exception
ExiftoolRuns == {"zero", "nonzero", "timeout", "not_found", "error"}

\* what a call meets.  stop_at: the first of the writer's looks at the
\* signal that finds it set (0: none does; write_exif_with_exiftool has 6,
\* write_exif_to_video 3); output_exists: output_path is there; copy_ok: the
\* copy to it succeeds; has_metadata: title, description or tags are not
\* empty; exiftool_path: EXIFTOOL_PATH is set; run: how exiftool ends
WriterCalls ==
  [fn : {"write_exif_with_exiftool", "write_exif_to_video"},
   stop_at : 0..6, output_exists : BOOLEAN, copy_ok : BOOLEAN,
   has_metadata : BOOLEAN, exiftool_path : BOOLEAN, run : ExiftoolRuns]

\* (should_continue, status), and whether an exiftool process was started
WriterResult(proceed, status, ran) ==
  [proceed |-> proceed, status |-> status, ran |-> ran]

ExiftoolStarts(a) == a.run \notin {"not_found", "error"}

\* the try block that writes the new metadata: a look at the signal, Popen,
\* the poll loop with its look at the signal, the exit code
WriteNewMetadata(a, before, during, ran) ==
  IF a.stop_at = before THEN WriterResult(FALSE, "stopped", ran)
  ELSE IF a.run = "not_found" THEN WriterResult(TRUE, "exiftool_not_found", ran)
  ELSE IF a.run = "error" THEN WriterResult(TRUE, "exif_failed", ran)
  ELSE IF a.stop_at = during THEN WriterResult(FALSE, "stopped", TRUE)
  ELSE IF a.run = "zero" THEN WriterResult(TRUE, "exif_ok", TRUE)
  ELSE WriterResult(TRUE, "exif_failed", TRUE)

write_exif_with_exiftool(a) ==
  IF a.stop_at = 1 THEN WriterResult(FALSE, "stopped", FALSE)
  ELSE IF ~a.output_exists /\ ~a.copy_ok
  THEN WriterResult(FALSE, "copy_failed", FALSE)
  ELSE IF a.stop_at = 2 THEN WriterResult(FALSE, "stopped", FALSE)
  ELSE IF ~a.has_metadata THEN WriterResult(TRUE, "no_metadata", FALSE)
  ELSE IF ~a.exiftool_path THEN WriterResult(TRUE, "exiftool_not_found", FALSE)
  ELSE IF a.stop_at = 3 THEN WriterResult(FALSE, "stopped", FALSE)
  ELSE IF a.stop_at = 4 THEN WriterResult(FALSE, "stopped", ExiftoolStarts(a))
  ELSE WriteNewMetadata(a, 5, 6, ExiftoolStarts(a))

write_exif_to_video(a) ==
  IF a.stop_at = 1 THEN WriterResult(FALSE, "stopped", FALSE)
  ELSE IF ~a.output_exists THEN WriterResult(FALSE, "output_missing", FALSE)
  ELSE IF ~a.has_metadata THEN WriterResult(TRUE, "no_metadata", FALSE)
  ELSE IF ~a.exiftool_path THEN WriterResult(TRUE, "exiftool_not_found", FALSE)
  ELSE WriteNewMetadata(a, 2, 3, FALSE)

\* the call returns
WriteExif ==
  /\ call \in WriterCalls
  /\ returned = <<>>
  /\ returned' = <<IF call.fn = "write_exif_to_video"
                    THEN write_exif_to_video(call)
                    ELSE write_exif_with_exiftool(call)>>
  /\ UNCHANGED <<call, cacheVars, libFrame>>

WriterInit ==
  /\ RunIdle
  /\ CacheIdle
  /\ call \in WriterCalls
  /\ returned = <<>>

WriterNext == WriteExif

WriterSpec == WriterInit /\ [][WriterNext]_vars

(* ---- compress_image and its cache, called by several threads ---------- *)
\* the input path of a key and the path its compressed copy is written to
InputPath(k)      == <<"input", k>>
CompressedPath(k) == <<"temp_compressed", k>>

\* the cache before the calls: empty, or holding the keys 1..n in the order
\* they were stored, one short of full or full
CachePrefills == {0, COMPRESS_CACHE_MAX - 1, COMPRESS_CACHE_MAX}

InCache(cache, k) == \E i \in 1..Len(cache) : cache[i] = k

\* variant: the cache counts as full only above its limit
CacheFull_above(cache) == Len(cache) > COMPRESS_CACHE_MAX

\* len(_COMPRESS_CACHE) >= _COMPRESS_CACHE_MAX
CacheFull(cache) == Len(cache) >= COMPRESS_CACHE_MAX

\* _cache_and_return under the lock: when the cache is full the first key
\* of the dict goes; then _COMPRESS_CACHE[cache_key] = out_path, which
\* leaves a key that is there where it is and puts a new one last
Stored(cache, k) ==
  LET kept == IF CacheFull(cache) THEN Tail(cache) ELSE cache
  IN IF InCache(kept, k) THEN kept ELSE Append(kept, k)

\* history: key k has just been used
Used(k, byHit) ==
  [recent |-> Append(SelectSeq(uses.recent, LAMBDA x : x # k), k),
   hit    |-> IF byHit THEN uses.hit \cup {k} ELSE uses.hit \ {k}]

\* compress_image(input_path) returns to thread t
CallerReturns(t, path, was_compressed) ==
  [caller EXCEPT ![t] = [@ EXCEPT !.at = "idle",
                                  !.ret = <<path, was_compressed>>]]

\* thread t calls compress_image for the file of key k
CallCompress(t, k) ==
  /\ call.fn = "compress_image"
  /\ caller[t].at = "idle"
  /\ caller[t].calls < MaxCalls
  /\ caller' = [caller EXCEPT ![t] = [at |-> "lookup", key |-> k,
                                      calls |-> @.calls + 1, ret |-> <<>>]]
  /\ UNCHANGED <<call, returned, COMPRESS_CACHE, temp_files, uses, libFrame>>

\* the cache check under the lock: a key that is there and whose file
\* exists is a hit, (cached_path, True); else the call goes on
Lookup(t) ==
  /\ caller[t].at = "lookup"
  /\ LET k == caller[t].key IN
     IF InCache(COMPRESS_CACHE, k) /\ k \in temp_files
     THEN /\ caller' = CallerReturns(t, CompressedPath(k), TRUE)
          /\ uses' = Used(k, TRUE)
     ELSE /\ caller' = [caller EXCEPT ![t].at = "work"]
          /\ UNCHANGED uses
  /\ UNCHANGED <<call, returned, COMPRESS_CACHE, temp_files, libFrame>>

\* the call gives up, (input_path, False): the signal is set, the image
\* needs no compression, or an error; or it writes the compressed file
Compress(t) ==
  /\ caller[t].at = "work"
  /\ \/ /\ caller' = CallerReturns(t, InputPath(caller[t].key), FALSE)
        /\ UNCHANGED temp_files
     \/ /\ caller' = [caller EXCEPT ![t].at = "store"]
        /\ temp_files' = temp_files \cup {caller[t].key}
  /\ UNCHANGED <<call, returned, COMPRESS_CACHE, uses, libFrame>>

\* _cache_and_return(out_path): (out_path, out_path != input_path)
CacheAndReturn(t) ==
  /\ caller[t].at = "store"
  /\ LET k == caller[t].key IN
     /\ COMPRESS_CACHE' = Stored(COMPRESS_CACHE, k)
     /\ uses' = Used(k, FALSE)
     /\ caller' = CallerReturns(t, CompressedPath(k),
                                CompressedPath(k) # InputPath(k))
  /\ UNCHANGED <<call, returned, temp_files, libFrame>>

\* the caller of an earlier call removes the compressed file it was given
Discard(k) ==
  /\ call.fn = "compress_image"
  /\ k \in temp_files
  /\ \A t \in Callers : ~(caller[t].at = "store" /\ caller[t].key = k)
  /\ temp_files' = temp_files \ {k}
  /\ UNCHANGED <<call, returned, COMPRESS_CACHE, caller, uses, libFrame>>

CacheInit ==
  /\ RunIdle
  /\ call = [fn |-> "compress_image"]
  /\ returned = <<>>
  /\ \E n \in CachePrefills :
       /\ COMPRESS_CACHE = [i \in 1..n |-> i]
       /\ temp_files \in SUBSET (HotKeys \cap 1..n)
  /\ caller = [t \in Callers |-> IdleCaller]
  /\ uses = NoUses

CacheNext ==
  \/ \E t \in Callers : \E k \in RequestKeys : CallCompress(t, k)
  \/ \E t \in Callers : Lookup(t)
  \/ \E t \in Callers : Compress(t)
  \/ \E t \in Callers : CacheAndReturn(t)
  \/ \E k \in RequestKeys : Discard(k)

CacheSpec == CacheInit /\ [][CacheNext]_vars

(* ============================== claims ================================= *)
Sum4 == processed_count + failed_count + skipped_count + stopped_count

\* the contributions of the files fs to one counter, added up
RECURSIVE TallySum(_, _)
TallySum(fs, field) ==
  IF fs = {} THEN 0
  ELSE LET f == CHOOSE x \in fs : TRUE IN tally[f][field] + TallySum(fs \ {f}, field)

InFirstPass  == pc \in {"prefill", "wait", "collect", "cancel", "shutdown"}
InRetryRound == pc \in {"retry_prefill", "retry_wait", "retry_collect",
                        "retry_shutdown"}
RoundBoundary == pc \in {"retry_loop", "done"}

\* C1: when the run returns its summary, processed + failed + skipped +
\* stopped equals total_files.
C1_SummaryAccountsForAll == pc = "done" => Sum4 = total_files

\* C2: in every state each path has contributed to at most one counter (its
\* contributions are 0 or 1 and sum to at most 1), so the four counters sum
\* to at most total_files and failed_count is never negative.
C2_NoDoubleCount ==
  /\ \A f \in Files :
       /\ tally[f].processed \in {0, 1} /\ tally[f].failed \in {0, 1}
       /\ tally[f].skipped \in {0, 1} /\ tally[f].stopped \in {0, 1}
       /\ tally[f].processed + tally[f].failed + tally[f].skipped
            + tally[f].stopped <= 1
  /\ processed_count = TallySum(Files, "processed")
  /\ failed_count = TallySum(Files, "failed")
  /\ skipped_count = TallySum(Files, "skipped")
  /\ stopped_count = TallySum(Files, "stopped")
  /\ Sum4 <= total_files
  /\ failed_count >= 0

\* a retry round promoted one file to processed while another stays failed
C2_Witness ==
  /\ pc = "done"
  /\ retry_processed >= 1
  /\ \E f \in Files : tally[f] = [ZeroTally EXCEPT !.processed = 1]
  /\ \E f \in Files : tally[f] = [ZeroTally EXCEPT !.failed = 1]

\* futures submitted and not yet collected, of any pass
InFlight == {f \in Files : future[f].state \in {"running", "done"}}

\* the pending set of the pass the coordinator is in
CurrentPending ==
  IF InFirstPass THEN pending_futures
  ELSE IF InRetryRound THEN retry_pending ELSE {}

\* C3: at every moment at most W jobs are submitted and not yet collected,
\* in the first pass and in every retry round, and every running job belongs
\* to the pass the coordinator is in.
C3_BoundedInFlight ==
  /\ Cardinality(pending_futures) <= num_workers
  /\ Cardinality(retry_pending) <= num_workers
  /\ Cardinality(InFlight) <= num_workers
  /\ Running(Files) \subseteq CurrentPending

\* a retry round with a full pool of two running jobs
C3_Witness ==
  /\ pc = "retry_wait"
  /\ num_workers = 2
  /\ Cardinality(Running(retry_pending)) = 2

\* C4: every job still running when the coordinator observes the signal is
\* counted in stopped_count at run end and in no other counter.
C4_InFlightCountedStopped ==
  pc = "done" =>
    \A f \in running_at_stop : tally[f] = [ZeroTally EXCEPT !.stopped = 1]

\* C5: after the signal is observed in the first pass, every file whose job
\* has not been collected (running, finished but unhandled, or still queued)
\* is added to stopped_count.
C5_UncollectedCountedStopped ==
  (pc = "done" /\ seen_stop /\ seen_pass = 0) =>
    \A f \in uncollected_at_stop : tally[f].stopped = 1

\* C6: with auto-retry on and no cancellation the run takes at most 4 retry
\* rounds and executes no file more than 5 times.
C6_RetryBounded ==
  /\ rounds <= 4
  /\ \A f \in Files : execs[f] <= 5

\* the failure status an outcome stands for
FailureOf(o) ==
  IF o = RAISES THEN "failed_exception"
  ELSE IF o = TIMEOUT THEN "failed_timeout" ELSE o

\* C7: a file whose every execution ends in the same retryable failure s is
\* executed at most max_attempts(s) times, exactly that often at run end.
C7_ExecutedCapTimes ==
  \A f \in Files :
    (/\ future[f].state # "running"
     /\ FailureOf(same_outcome[f]) \in
          RetryableNames \ {"debug_artificial_failure"}) =>
       /\ execs[f] <= RETRYABLE_STATUSES[FailureOf(same_outcome[f])]
       /\ pc = "done" =>
            execs[f] = RETRYABLE_STATUSES[FailureOf(same_outcome[f])]

\* C8 as stated: the files submitted in a retry round are exactly the files
\* of the pass before it that hold a retryable registry entry, less those
\* found missing when dequeued.
C8_SubmittedExactlyCandidates ==
  pc = "retry_shutdown" =>
    retry_processed_files = candidates \ gone_at_dequeue

\* C8 amended: the candidate list of a retry round is exactly the set of
\* files of the pass before it that hold a retryable registry entry (status
\* in the policy table, attempt below its cap) and still exist; only
\* candidates are submitted; and when the round ends with the signal not set,
\* every candidate not found missing when dequeued was submitted.
C8_CandidatesExact ==
  InRetryRound =>
    /\ SeqToSet(retry_files) = candidates
    /\ retry_processed_files \subseteq candidates
    /\ (pc = "retry_shutdown" /\ ~stop) =>
         retry_processed_files = candidates \ gone_at_dequeue

\* a second retry round has run a file to its third failure, no signal set
C8_Witness ==
  /\ pc = "retry_shutdown"
  /\ ~stop
  /\ \E f \in retry_processed_files :
       /\ f \in candidates
       /\ \E i \in 1..Len(failed_files) :
            failed_files[i][1] = f /\ failed_files[i][3] = 3

\* C9: a path whose registry status is non-retryable or absent from the
\* policy table is never submitted in a retry round.
C9_NonRetryableNeverResubmitted ==
  [][\A f \in Files :
       (InRetryRound /\ future[f].state # "running"
                     /\ future'[f].state = "running") =>
         /\ RegistryLookup(failed_files, f)[1] \notin NON_RETRYABLE_STATUSES
         /\ RegistryLookup(failed_files, f)[1] \in RetryableNames]_vars

\* a retry round runs a job while the registry holds a failed_format entry
C9_Witness ==
  /\ pc = "retry_wait"
  /\ Running(retry_pending) # {}
  /\ \E i \in 1..Len(failed_files) : failed_files[i][2] = "failed_format"

\* C10: at every round boundary each registry entry's attempt is the number
\* of executions of its file so far and its status is the file's latest
\* outcome.
C10_RegistryTracksExecutions ==
  RoundBoundary =>
    \A i \in 1..Len(failed_files) :
      /\ failed_files[i][3] = execs[failed_files[i][1]]
      /\ failed_files[i][2] = FailureOf(last_outcome[failed_files[i][1]])

\* the file whose result this step retrieves
Collects(f) == future[f].state = "done" /\ future'[f].state = "collected"

\* this step submits a job for f
Submits(f) == future[f].state # "running" /\ future'[f].state = "running"

HasEntry(reg, fp) == \E i \in 1..Len(reg) : reg[i][1] = fp

\* C11: processed_count, skipped_count and stopped_count never decrease;
\* failed_count decreases only in the step that handles a retry success,
\* which takes exactly 1 from failed_count, adds exactly 1 to processed_count
\* and removes the file's entry from the registry; outside the first pass
\* skipped_count and stopped_count do not change.
C11_CountersFrame ==
  [][/\ processed_count' >= processed_count
     /\ skipped_count' >= skipped_count
     /\ stopped_count' >= stopped_count
     /\ failed_count' < failed_count =>
          \E f \in Files : /\ InRetryRound /\ Collects(f)
                           /\ future[f].result \in ProcessedStatuses
     /\ \A f \in Files :
          (InRetryRound /\ Collects(f)
             /\ future[f].result \in ProcessedStatuses) =>
            /\ failed_count' = failed_count - 1
            /\ processed_count' = processed_count + 1
            /\ HasEntry(failed_files, f)
            /\ ~HasEntry(failed_files', f)
     /\ ~InFirstPass =>
          /\ skipped_count' = skipped_count
          /\ stopped_count' = stopped_count]_vars

\* every file ended processed, at least one of them through a retry
C11_Witness ==
  /\ pc = "done"
  /\ retry_processed >= 1
  /\ failed_files = <<>>
  /\ failed_count = 0
  /\ processed_count = total_files

\* C12: once the coordinator has observed the signal it submits no job, in
\* the first pass or in a retry round, and starts no retry round.
C12_NoSubmissionAfterStop ==
  [][seen_stop =>
       /\ \A f \in Files : ~Submits(f)
       /\ ~(pc = "retry_loop" /\ pc' = "retry_prefill")]_vars

\* a retry round was cut short by the signal with a candidate left for a
\* next round that is not started
C12_Witness ==
  /\ pc = "done"
  /\ seen_stop /\ seen_pass = 1
  /\ retry_files # <<>>

\* files the first pass / the retry round can still submit
Submittable ==
  {f \in QueueRest(file_queue_index) : exists[f] /\ f \notin processed_files}
RetrySubmittable ==
  {f \in {retry_files[i] : i \in (retry_queue_index + 1)..Len(retry_files)} :
     exists[f] /\ f \notin retry_processed_files}

\* C13: with no signal set, whenever the coordinator waits for a completion
\* while a submittable file is still queued, exactly W jobs are in flight.
C13_FullWindowWhileWaiting ==
  /\ (pc = "wait" /\ ~stop /\ Submittable # {}) =>
       Cardinality(pending_futures) = num_workers
  /\ (pc = "retry_wait" /\ ~stop /\ RetrySubmittable # {}) =>
       Cardinality(retry_pending) = num_workers

\* a retry round waits on a full pool with a candidate still queued
C13_Witness ==
  /\ pc = "retry_wait" /\ ~stop
  /\ RetrySubmittable # {}
  /\ Cardinality(Running(retry_pending)) = num_workers

\* position of a file in the directory listing
ListingPos(f) == f

\* C14: a first-pass submission is of a file not submitted before, and
\* every file submitted earlier precedes it in the listing.
C14_SubmittedInQueueOrder ==
  [][\A b \in Files :
       (InFirstPass /\ Submits(b)) =>
         /\ b \notin processed_files
         /\ \A a \in processed_files : ListingPos(a) < ListingPos(b)]_vars

\* the second file runs after the first one was collected
C14_Witness ==
  /\ InFirstPass
  /\ \E a, b \in Files :
       /\ ListingPos(a) < ListingPos(b)
       /\ future[a].state = "collected"
       /\ future[b].state = "running"

\* C15: the n-th submission of a run (n = 0, 1, ..., over the first pass and
\* all retry rounds) carries credential number n mod K: every job in flight
\* holds the credential of its submission number, and the next submission
\* will get submit_seq mod K.
C15_RoundRobinCredential ==
  /\ current_api_key_index = submit_seq % num_keys
  /\ \A f \in InFlight : assigned_key[f] = submit_no[f] % num_keys

\* with two credentials, the fourth submission of the run is a retry and
\* holds credential 1
C15_Witness ==
  /\ num_keys = 2
  /\ InRetryRound
  /\ \E f \in Running(Files) : submit_no[f] = 3 /\ assigned_key[f] = 1

\* C16: with at least as many credentials as workers, no two jobs running
\* at the same time hold the same credential.
C16_NoSharedCredential ==
  num_keys >= num_workers =>
    \A f, g \in Running(Files) : f # g => assigned_key[f] # assigned_key[g]

\* C17: with a delay D > 0, every submission but the first of the run is
\* made at least D after the submission before it, the first submission of
\* a retry round included.
C17_SubmissionSpacing ==
  [][\A f \in Files :
       (Submits(f) /\ delay_seconds > 0 /\ prev_submit > 0) =>
         now' - prev_submit >= delay_seconds]_vars

\* C18: in a run without cancellation, collecting a first-pass job that
\* raised adds 1 to failed_count only, appends (path, failed_exception, 1)
\* to the registry ((path, failed_timeout, 1) for a timeout), and the
\* coordinator goes on: when the first pass ends every file of the queue has
\* been submitted and collected and each is counted once.
C18_RaisingJobFolded ==
  [][/\ \A f \in Files :
          (InFirstPass /\ Collects(f) /\ future[f].result \in {RAISES, TIMEOUT}) =>
            /\ failed_count' = failed_count + 1
            /\ tally'[f] = [ZeroTally EXCEPT !.failed = 1]
            /\ processed_count' = processed_count
            /\ skipped_count' = skipped_count
            /\ stopped_count' = stopped_count
            /\ failed_files' =
                 Append(failed_files, <<f, FailureOf(future[f].result), 1>>)
            /\ pc' \in {"wait", "collect"}
     /\ (pc = "retry_gate" /\ num_keys >= 1) =>
          /\ processed_files = SeqToSet(file_queue)
          /\ \A f \in processed_files : future[f].state = "collected"
          /\ Sum4 = total_files]_vars

\* the first pass ended with one job that raised, recorded with attempt 1,
\* and the other file processed
C18_Witness ==
  /\ pc = "retry_gate"
  /\ \E f, g \in Files :
       /\ failed_files = <<(<<f, "failed_exception", 1>>)>>
       /\ tally[g] = [ZeroTally EXCEPT !.processed = 1]

\* C19: collecting a retry-round job that returned stopped or skipped_exists
\* leaves the registry and the round's failure tally as they are, and the
\* file is not put among the next round's candidates.
C19_ControlOutcomeNotAFailure ==
  [][\A f \in Files :
       (InRetryRound /\ Collects(f)
          /\ future[f].result \in {"stopped", "skipped_exists"}) =>
         /\ failed_files' = failed_files
         /\ retry_failed' = retry_failed
         /\ f \notin SeqToSet(current_retry_failed_files')]_vars

\* this step is the return of the job of f
Returning(f) == future[f].state = "running" /\ future'[f].state = "done"

\* the job of f found its un-renamed output path in place when it started
FoundOutput(f) == job[f].out0 # "absent"

\* the job part of C20: such a job, with the signal never set and its input
\* in place, returns skipped_exists having done nothing, the output file
\* and the input left as they were
SkipHasNoEffect ==
  \A f \in Files :
    (Returning(f) /\ FoundOutput(f) /\ ~stop' /\ exists'[f]) =>
      /\ future'[f].result = "skipped_exists"
      /\ effects'[f] = {}
      /\ output'[f] = job[f].out0
      /\ temp_raster'[f] = {}

\* the counting part of C20: at the end of a run that was not cancelled,
\* a file whose job returned skipped_exists in this way is counted in
\* skipped_count and in no other counter
SkipCountedSkipped ==
  (pc' = "done" /\ ~stop') =>
    \A f \in Files :
      (job'[f].ret = "skipped_exists" /\ job'[f].out0 # "absent") =>
        tally'[f] = [ZeroTally EXCEPT !.skipped = 1]

\* C20: a job that finds its un-renamed output path in place when it starts,
\* with no cancellation, returns skipped_exists without converting, calling
\* the AI collaborator, copying, embedding, deleting the input or writing a
\* CSV row, leaves the output file as it was, and its file is counted in
\* skipped_count only.
C20_SkipExistingOutput == [][SkipHasNoEffect /\ SkipCountedSkipped]_vars

C20_JobPart == [][SkipHasNoEffect]_vars

\* every file of the run had a job, and all its jobs returned a status of S
AllJobsReturned(S) == \A f \in 1..total_files : same_outcome[f] \in S

\* C21: at the end of a run without cancellation in which the job of every
\* file returned a processed_* status, processed_count = total_files, the
\* other three counters are 0, every file was executed exactly once and no
\* retry round was started, with auto-retry enabled or not.
C21_AllProcessedSummary ==
  (pc = "done" /\ ~stop /\ AllJobsReturned(ProcessedStatuses)) =>
    /\ processed_count = total_files
    /\ failed_count = 0 /\ skipped_count = 0 /\ stopped_count = 0
    /\ \A f \in 1..total_files : execs[f] = 1
    /\ rounds = 0

\* three files, two workers, a delay, auto-retry enabled: the jobs returned
\* three different processed statuses
C21_Witness ==
  /\ pc = "done" /\ total_files = 3 /\ num_workers = 2
  /\ delay_seconds > 0 /\ auto_retry_enabled
  /\ AllJobsReturned(ProcessedStatuses)
  /\ last_outcome[1] = "processed_exif"
  /\ last_outcome[2] = "processed_exif_failed"
  /\ last_outcome[3] = "processed_unknown_exif_status"

Exhausted(status, attempt) ==
  \/ status \notin RetryableNames
  \/ attempt >= RETRYABLE_STATUSES[status]

\* f has reached a terminal outcome: counted as processed, skipped or
\* stopped, or counted as failed with a registry entry (or none) that the
\* policy table gives no further attempt
Terminal(f) ==
  \/ tally[f].processed = 1 \/ tally[f].skipped = 1 \/ tally[f].stopped = 1
  \/ /\ tally[f].failed = 1
     /\ future[f].state \notin {"running", "done"}
     /\ Exhausted(RegistryLookup(failed_files, f)[1],
                  RegistryLookup(failed_files, f)[2])

C24_InputDeletedOnlyIfProcessed ==
  [][\A f \in Files :
       (Returning(f) /\ "delete" \in effects'[f]) =>
         future'[f].result \in ProcessedStatuses]_vars

\* the names "T.ext", "T (1).ext", ..., "T (50).ext" not in taken
FreeNames(taken) == (0..50) \ taken

\* C25: a job that renames its output to a title (renaming enabled, title
\* not empty, the move itself not failing) ends with the free name of the
\* smallest number among "T.ext", "T (1).ext", ..., "T (50).ext"; it keeps
\* the original name only when all of them are taken; and its status is a
\* processed_* one.
C25_RenameCollision ==
  [][\A f \in Files :
       (Returning(f) /\ rename_enabled /\ "titled" \in effects'[f]
          /\ "move_failed" \notin effects'[f]) =>
         /\ future'[f].result \in ProcessedStatuses
         /\ IF FreeNames(job'[f].seen) # {}
            THEN /\ job'[f].final \in FreeNames(job'[f].seen)
                 /\ \A k \in FreeNames(job'[f].seen) : job'[f].final <= k
            ELSE job'[f].final = Original]_vars

\* C26: two jobs that rename their outputs to one title in one directory
\* (same extension) end with different names, and no move replaces a file
\* another job has put under that name.
C26_DistinctRenamedOutputs ==
  \A f, g \in Files :
    (f # g /\ ext[f] = ext[g] /\ job[f].final >= 0 /\ job[g].final >= 0) =>
      /\ job[f].final # job[g].final
      /\ "overwrite" \notin effects[f] \cup effects[g]

\* the job of f holds an intermediate raster: it has converted its input
\* and not yet finished the AI call that reads the raster
HoldsRaster(f) ==
  future[f].state = "running" /\ job[f].at \in {"vec_compress", "vec_ai"}

\* C27: no two running jobs hold an intermediate raster at the same temp
\* folder path at the same time.
C27_NoSharedRaster ==
  \A f, g \in Files :
    (f # g /\ HoldsRaster(f) /\ HoldsRaster(g)) => TempSlot(f) # TempSlot(g)

\* this step is the return of process_vector_file to the job of f
VectorReturning(f) ==
  /\ job[f].at \in {"vec_start", "vec_convert", "vec_compress", "vec_ai",
                    "vec_copy", "vec_exif"}
  /\ job'[f].at = "post"

Embedded(j) == j.exif \notin {"-", "raised"}

\* the status the embedding outcome stands for
StatusOfEmbedding(j) ==
  IF j.exif = "not_called" THEN "processed_no_exif"
  ELSE IF ~j.proceed THEN "failed_" \o j.exif
  ELSE CASE j.exif = "exif_ok"            -> "processed_exif"
         [] j.exif = "exif_failed"        -> "processed_exif_failed"
         [] j.exif = "exiftool_not_found" -> "processed_exif_failed"
         [] j.exif = "no_metadata"        -> "processed_no_exif"
         [] OTHER                         -> "processed_unknown_exif_status"

\* C29: after a successful AI call and copy, the status process_vector_file
\* returns is the one the embedding outcome stands for (embedding disabled:
\* processed_no_exif, the embedder not called); the job returns that status
\* when the signal is not set and nothing raises; and the scheduler adds a
\* collected processed_* result to processed_count.
C29_EmbeddingOutcomeStatus ==
  [][\A f \in Files :
       /\ (VectorReturning(f) /\ Embedded(job'[f])) =>
            /\ job'[f].status = StatusOfEmbedding(job'[f])
            /\ (job'[f].exif = "not_called") = ~embedding_enabled
            /\ ~embedding_enabled => "exif_call" \notin effects'[f]
       /\ (Returning(f) /\ Embedded(job'[f]) /\ ~stop'
              /\ "crash" \notin effects'[f]) =>
            future'[f].result = StatusOfEmbedding(job'[f])
       /\ (Collects(f) /\ future[f].result \in ProcessedStatuses) =>
            processed_count' = processed_count + 1]_vars

\* a run ended with its file counted as processed after the embedder
\* handed back a status with no branch of its own
C29_Witness ==
  /\ pc = "done" /\ processed_count = 1
  /\ \E f \in Files :
       /\ job[f].exif = "unknown_error"
       /\ job[f].ret = "processed_unknown_exif_status"

\* the AI collaborator handed back no metadata
NoMetadata(j) == j.ai \in {"stopped", "error", "invalid"}

\* C30: when the AI collaborator hands back the "stopped" sentinel
\* process_vector_file returns stopped, for a dict with an "error" key or a
\* result that is no dict it returns failed_api; the job then returns that
\* status (stopped if it sees the signal) having copied no output, embedded
\* nothing, not deleted its input and written no CSV row.
C30_AiResultStatus ==
  [][\A f \in Files :
       /\ (VectorReturning(f) /\ job[f].at = "vec_ai") =>
            /\ NoMetadata(job'[f])
            /\ job'[f].status =
                 (IF job'[f].ai = "stopped" THEN "stopped" ELSE "failed_api")
       /\ (Returning(f) /\ NoMetadata(job'[f])) =>
            /\ future'[f].result \in {job'[f].status, "stopped"}
            /\ ~stop' => future'[f].result = job'[f].status
            /\ effects'[f] \cap {"copy", "exif_call", "embed", "rename",
                                  "delete", "csv"} = {}
            /\ output'[f] = job'[f].out0]_vars

\* a run ended with its file counted as failed after the AI collaborator
\* handed back something that is no dict
C30_Witness ==
  /\ pc = "done" /\ failed_count = 1
  /\ \E f \in Files :
       /\ job[f].ai = "invalid" /\ job[f].ret = "failed_api"
       /\ exists[f]

\* the job of f takes its first step with the signal set
StartsStopped(f) ==
  /\ stop
  /\ job[f].at = "start"
  /\ job'[f] # job[f]

\* C31: a job that finds the signal set when it starts returns stopped on
\* its first step, having called no collaborator (conversion, compression,
\* AI, embedder, CSV) and created, copied, renamed or deleted no file.
C31_StoppedAtEntry ==
  [][\A f \in Files :
       StartsStopped(f) =>
         /\ job'[f].at = "returned"
         /\ future'[f] = [state |-> "done", result |-> "stopped"]
         /\ effects'[f] = {}
         /\ UNCHANGED <<exists, output, temp_raster, names>>]_vars

\* a job returned stopped from its first look at the signal; its input is
\* there, nothing is in the temp folder
C31_Witness ==
  \E f \in Files :
    /\ job[f].at = "returned" /\ job[f].from = "start"
    /\ job[f].ret = "stopped"
    /\ exists[f] /\ output[f] = job[f].out0 /\ temp_raster[TempSlot(f)] = {}


\* C32: whenever batch_process_files has returned after making the temp
\* folder, the folder temp_compressed of the output directory is gone.
C32_TempFolderRemoved == pc = "done" => ~temp_folder


\* C33: the calls of progress_callback so far start with completed = 0,
\* their completed values never decrease and never exceed total_files, and
\* the total passed is total_files in every call.
C33_ProgressMonotone ==
  /\ progress # <<>> => progress[1][1] = 0
  /\ \A i \in 1..Len(progress) :
       /\ progress[i][1] \in 0..total_files
       /\ progress[i][2] = total_files
  /\ \A i, j \in 1..Len(progress) : i <= j => progress[i][1] <= progress[j][1]

\* a run of two files has returned after reporting 0, 1 and 2
C33_Witness ==
  /\ pc = "done"
  /\ total_files = 2
  /\ progress = <<<<0, 2>>, <<1, 2>>, <<2, 2>>>>


\* C34: in a run that is not cancelled and whose jobs all complete, the
\* progress callback is eventually called with completed = total_files.
C34_ProgressReachesTotal ==
  <>(\E i \in 1..Len(progress) : progress[i] = <<total_files, total_files>>)


\* the run was given no credential and its inputs stay in place
NoCredential == num_keys = 0 /\ ~env.may_vanish

Dequeued(f) ==
  /\ InFirstPass
  /\ \E i \in (file_queue_index + 1)..file_queue_index' : file_queue[i] = f

\* the first pass has just ended: the queue is used up, nothing is pending
\* or running, and no file has been executed twice
FirstPassDrained ==
  /\ file_queue_index = Len(file_queue)
  /\ pending_futures = {}
  /\ \A f \in Files : future[f].state # "running"
  /\ \A f \in Files : execs[f] = IF f \in processed_files THEN 1 ELSE 0

\* C36 as stated: in a run that is not cancelled and whose jobs all
\* complete, the first pass ends, with the queue used up and nothing in
\* flight, and each file that exists when it is dequeued is submitted in
\* that step, for the first and only time.
C36_FirstPassSubmitsAll ==
  /\ <>(pc = "retry_gate")
  /\ [](pc = "retry_gate" => FirstPassDrained)
  /\ [][\A f \in Files :
          (Dequeued(f) /\ exists[f]) =>
             /\ Submits(f)
             /\ f \notin processed_files /\ f \in processed_files'
             /\ execs'[f] = 1]_vars

\* C36, amended: the same, for the files dequeued while the credential list
\* is not empty; with an empty list a dequeued file is counted as failed and
\* not submitted.
C36_FirstPassSubmitsAllWithKeys ==
  /\ <>(pc = "retry_gate")
  /\ [](pc = "retry_gate" => FirstPassDrained)
  /\ [][\A f \in Files :
          (Dequeued(f) /\ exists[f]) =>
             IF num_keys > 0
             THEN /\ Submits(f)
                  /\ f \notin processed_files /\ f \in processed_files'
                  /\ execs'[f] = 1
             ELSE /\ ~Submits(f)
                  /\ tally'[f].failed = tally[f].failed + 1]_vars

\* the first pass of two files has ended: one was submitted once and has
\* completed, the other had vanished when it was dequeued and never ran
C36_Witness ==
  /\ pc = "retry_gate"
  /\ num_keys > 0
  /\ FirstPassDrained
  /\ \E f, g \in 1..total_files :
       /\ execs[f] = 1 /\ future[f].state = "collected"
       /\ execs[g] = 0 /\ ~exists[g] /\ g \notin processed_files


Clamp(x, lo, hi) == IF x < lo THEN lo ELSE IF x > hi THEN hi ELSE x

\* floor(1.5 * c)
Floor1_5(c) == CHOOSE n \in 0..(2 * c) : 2 * n <= 3 * c /\ 3 * c < 2 * (n + 1)

\* the logical CPU count, taken as 4 when unknown
CpuCount == IF call.cpu_count = 0 THEN 4 ELSE call.cpu_count

\* C38: get_recommended_workers returns clamp(floor(1.5 * c), 4, 100) for
\* the CPU count c (4 when unknown); the result lies in 4..100 and is at
\* least the result for every smaller count.
C38_RecommendedWorkers ==
  returned # <<>> =>
    /\ returned[1] = Clamp(Floor1_5(CpuCount), 4, 100)
    /\ returned[1] \in 4..100
    /\ \A d \in 1..CpuCount : get_recommended_workers(d) <= returned[1]

\* 67 logical CPUs, the smallest count that gives the upper limit
C38_Witness ==
  /\ call.fn = "get_recommended_workers" /\ call.cpu_count = 67
  /\ returned = <<100>>
  /\ get_recommended_workers(66) = 99


\* the statuses the embedding collaborator is specified to return
WriterStatuses ==
  {"exif_ok", "exif_failed", "no_metadata", "stopped", "copy_failed",
   "exiftool_not_found", "unknown_error"}

\* C37: either metadata writer returns a status of WriterStatuses, with
\* should_continue false exactly for stopped and copy_failed; called with
\* the signal set, it returns (False, "stopped") and starts no exiftool.
C37_WriterStatuses ==
  returned # <<>> =>
    /\ returned[1].status \in WriterStatuses
    /\ ~returned[1].proceed <=> returned[1].status \in {"stopped", "copy_failed"}
    /\ call.stop_at = 1 =>
         returned[1] = WriterResult(FALSE, "stopped", FALSE)

\* the keys in a cache
CachedKeys(cache) == {cache[i] : i \in 1..Len(cache)}

\* key a was used later than key b: b has not been used since the study
\* began, or its latest use comes before that of a
UsedLaterThan(a, b) ==
  /\ InCache(uses.recent, a)
  /\ \/ ~InCache(uses.recent, b)
     \/ \E i, j \in 1..Len(uses.recent) :
          i < j /\ uses.recent[i] = b /\ uses.recent[j] = a

\* C39: least-recently-used eviction: a store never drops a key whose latest
\* use is a lookup hit while it keeps a key that was last used before that hit
C39_EvictsLeastRecentlyUsed ==
  [][\A a \in CachedKeys(COMPRESS_CACHE) \ CachedKeys(COMPRESS_CACHE') :
       \A b \in CachedKeys(COMPRESS_CACHE) \cap CachedKeys(COMPRESS_CACHE') :
         ~(a \in uses.hit /\ UsedLaterThan(a, b))]_vars

\* C40: under every interleaving of the calls the cache holds at most
\* COMPRESS_CACHE_MAX keys, and every call that has returned says
\* was_compressed exactly when the path it returns is not the input path
C40_CacheBounded ==
  /\ Len(COMPRESS_CACHE) <= COMPRESS_CACHE_MAX
  /\ \A t \in Callers :
       caller[t].ret # <<>> =>
         (caller[t].ret[2] <=> caller[t].ret[1] # InputPath(caller[t].key))

\* a full cache that has taken both new keys from two threads, one call
\* having returned a compressed copy and another the input itself
C40_Witness ==
  /\ Len(COMPRESS_CACHE) = COMPRESS_CACHE_MAX
  /\ FreshKeys \subseteq CachedKeys(COMPRESS_CACHE)
  /\ \E t, u \in Callers :
       /\ t # u
       /\ caller[t].ret = <<CompressedPath(caller[t].key), TRUE>>
       /\ caller[u].ret = <<InputPath(caller[u].key), FALSE>>
       /\ caller[t].calls > 0 /\ caller[u].calls > 0

=============================================================================
